---- MODULE Spec2Model ----
(***************************************************************************)
(* Registry-and-dispatch subsystem of the GraphRAG MCP server:             *)
(* ResourceRegistry, PromptRegistry, ToolRegistry, and the protocol        *)
(* handlers GraphRAGMCPServer installs over them.                          *)
(*                                                                         *)
(* Strings are sequences of atoms.  In resource content every atom is one  *)
(* character (len() and slicing act on them); in messages built by         *)
(* f-strings every atom is one fragment of the formatted text.             *)
(***************************************************************************)
EXTENDS Integers, Sequences, FiniteSets, TLC

\* ------------------------------------------------------------------ bounds
\* longest content a client-registered generator returns
MaxContentLen == 2
\* largest small content-length limit a ServerConfig is constructed with
MaxLimit == 2
\* number of requests that can be in flight at once
MaxInFlight == 2

\* ------------------------------------------------------------- python values
\* ServerConfig.max_content_length default
DEFAULT_MAX_CONTENT_LENGTH == 1000000

\* A resource key is either the pydantic AnyUrl that types.Resource.uri holds
\* or a plain str.  An AnyUrl and a str never compare equal and so are
\* different dict keys, which is what record equality gives here.
Url(s) == [t |-> "url", s |-> s]
Str(s) == [t |-> "str", s |-> s]
\* str(x) / f"{x}"
PyStr(k) == k.s

NoKey == [t |-> "none", s |-> ""]

\* dict: insertion ordered.  DictUpdate(d, items) is d after "d[k] = v" for each
\* item in turn: a key keeps the position of its first assignment and holds
\* the value of its last one.
DictHas(d, k) == \E i \in 1..Len(d) : d[i].k = k
DictGet(d, k) == d[CHOOSE i \in 1..Len(d) : d[i].k = k].v
DictUpdate(d, items) ==
    LET all == d \o items
        first == {i \in 1..Len(all) : \A j \in 1..(i - 1) : all[j].k # all[i].k}
        nth(n) == CHOOSE i \in first : Cardinality({j \in first : j < i}) = n - 1
        lastOf(k) == CHOOSE i \in 1..Len(all) :
                        all[i].k = k /\ \A j \in (i + 1)..Len(all) : all[j].k # k
    IN [n \in 1..Cardinality(first) |-> [k |-> all[nth(n)].k, v |-> all[lastOf(all[nth(n)].k)].v]]
\* d[k] = v
DictSet(d, k, v) ==
    IF DictHas(d, k)
    THEN [i \in 1..Len(d) |-> IF d[i].k = k THEN [k |-> d[i].k, v |-> v] ELSE d[i]]
    ELSE Append(d, [k |-> k, v |-> v])
DictKeys(d) == [i \in 1..Len(d) |-> d[i].k]
DictValues(d) == [i \in 1..Len(d) |-> d[i].v]
KeySet(d) == {d[i].k : i \in 1..Len(d)}

\* content[:n]
PySlicePrefix(c, n) ==
    IF n >= 0
    THEN SubSeq(c, 1, IF n < Len(c) THEN n ELSE Len(c))
    ELSE SubSeq(c, 1, IF Len(c) + n > 0 THEN Len(c) + n ELSE 0)

\* ---------------------------------------------------------------- exceptions
NoExc == [cls |-> "none", code |-> "", id |-> NoKey, details |-> <<>>, message |-> <<>>]

ResourceNotFoundError(uri) ==
    [cls |-> "ResourceNotFoundError", code |-> "RESOURCE_NOT_FOUND", id |-> uri,
     details |-> <<>>, message |-> <<"Resource not found: ", PyStr(uri)>>]

ContentGenerationError(uri, reason) ==
    [cls |-> "ContentGenerationError", code |-> "CONTENT_GENERATION_FAILED", id |-> uri,
     details |-> reason,
     message |-> <<"Failed to generate content for ", PyStr(uri), ": ">> \o reason]

PromptNotFoundError(name) ==
    [cls |-> "PromptNotFoundError", code |-> "PROMPT_NOT_FOUND", id |-> Str(name),
     details |-> <<>>, message |-> <<"Prompt not found: ", name>>]

ToolNotFoundError(name) ==
    [cls |-> "ToolNotFoundError", code |-> "TOOL_NOT_FOUND", id |-> Str(name),
     details |-> <<>>, message |-> <<"Tool not found: ", name>>]

ToolExecutionError(name, details) ==
    [cls |-> "ToolExecutionError", code |-> "TOOL_EXECUTION_FAILED", id |-> Str(name),
     details |-> details,
     message |-> <<"Failed to execute tool ", name, ": ">> \o details]

\* an exception that is not a GraphRAGError, raised by a client-supplied callable
RuntimeError(text) ==
    [cls |-> "RuntimeError", code |-> "", id |-> NoKey, details |-> <<>>, message |-> <<text>>]

\* str(e)
ExcStr(e) == e.message

\* outcome of a call: a value returned or an exception raised
Return(v) == [ok |-> TRUE, val |-> v, exc |-> NoExc]
Raise(e) == [ok |-> FALSE, val |-> <<>>, exc |-> e]

\* --------------------------------------------------------- static catalogs
GRAPHRAG_RESOURCES == <<
    [uri |-> Url("graphrag://overview"), name |-> "GraphRAG Overview"],
    [uri |-> Url("graphrag://construction-patterns"), name |-> "Knowledge Graph Construction Patterns"],
    [uri |-> Url("graphrag://embedding-strategies"), name |-> "Embedding Fusion Strategies"],
    [uri |-> Url("graphrag://retrieval-strategies"), name |-> "Retrieval & Search Strategies"],
    [uri |-> Url("graphrag://architectural-tradeoffs"), name |-> "Architectural Trade-offs in Graph Models"],
    [uri |-> Url("graphrag://literature-landscape"), name |-> "External Literature & Industry Landscape"],
    [uri |-> Url("graphrag://technology-stacks"), name |-> "Frameworks & Technology Stacks"],
    [uri |-> Url("graphrag://pattern-catalog"), name |-> "Pattern Catalog"],
    [uri |-> Url("graphrag://patterns/llm-assisted-extraction"), name |-> "LLM-Assisted Entity & Relation Graphs"],
    [uri |-> Url("graphrag://patterns/event-reification"), name |-> "Event Reification (N-ary Relations as Nodes)"],
    [uri |-> Url("graphrag://patterns/layered-graphs"), name |-> "Layered Graphs (Multi-Tier Knowledge Integration)"],
    [uri |-> Url("graphrag://patterns/provenance-evidence"), name |-> "Provenance & Evidence Layering"],
    [uri |-> Url("graphrag://patterns/temporal-episodic"), name |-> "Temporal & Episodic Graphs"],
    [uri |-> Url("graphrag://patterns/hybrid-symbolic-vector"), name |-> "Hybrid Symbolic-Vector Graphs"],
    [uri |-> Url("graphrag://embeddings/node-embeddings"), name |-> "Node Embeddings: Semantic + Structural"],
    [uri |-> Url("graphrag://embeddings/edge-relation-embeddings"), name |-> "Edge and Relation Embeddings"],
    [uri |-> Url("graphrag://embeddings/path-metapath-embeddings"), name |-> "Path and Metapath Embeddings"],
    [uri |-> Url("graphrag://embeddings/subgraph-community-embeddings"), name |-> "Subgraph or Community Embeddings"],
    [uri |-> Url("graphrag://embeddings/joint-representation-fusion"), name |-> "Joint Representation & Fusion Techniques"],
    [uri |-> Url("graphrag://retrieval/global-first"), name |-> "Global-First Retrieval (Top-Down Overview)"],
    [uri |-> Url("graphrag://retrieval/local-first"), name |-> "Local-First Retrieval (Bottom-Up Expansion)"],
    [uri |-> Url("graphrag://retrieval/u-shaped-hybrid"), name |-> "Hybrid or U-shaped Retrieval"],
    [uri |-> Url("graphrag://retrieval/query-rewriting-decomposition"), name |-> "Query Rewriting & Decomposition for Multi-hop"],
    [uri |-> Url("graphrag://retrieval/temporal-predictive"), name |-> "Temporal and Predictive Retrieval"],
    [uri |-> Url("graphrag://retrieval/constraint-guided-filtering"), name |-> "Constraint-Guided and Hybrid Symbolic-Neural Filtering"]
>>

\* the 25 catalog keys as plain strings, in catalog order
CatalogUriStrings == [i \in 1..Len(GRAPHRAG_RESOURCES) |-> PyStr(GRAPHRAG_RESOURCES[i].uri)]
CatalogUriSet == {CatalogUriStrings[i] : i \in 1..Len(CatalogUriStrings)}

PATTERNS_PREFIX == "graphrag://patterns/"
EMBEDDINGS_PREFIX == "graphrag://embeddings/"
RETRIEVAL_PREFIX == "graphrag://retrieval/"

PatternUris == {CatalogUriStrings[i] : i \in 9..14}
EmbeddingUris == {CatalogUriStrings[i] : i \in 15..19}
RetrievalUris == {CatalogUriStrings[i] : i \in 20..25}

\* s.startswith(prefix), over the uri strings of the model
StartsWith(s, prefix) ==
    \/ prefix = PATTERNS_PREFIX /\ s \in PatternUris
    \/ prefix = EMBEDDINGS_PREFIX /\ s \in EmbeddingUris
    \/ prefix = RETRIEVAL_PREFIX /\ s \in RetrievalUris

\* --------------------------------------------------------- content functions
\* The markdown payload of a document is two characters here: a heading mark
\* and one character that stands for the body of that document.
DirectContent(fn) == <<"#", fn>>

get_construction_pattern_detail(uri) ==
    IF uri \in PatternUris THEN <<"#", uri>> ELSE <<"Pattern detail not found for ", uri>>

get_embedding_strategy_detail(uri) ==
    IF uri \in EmbeddingUris THEN <<"#", uri>>
    ELSE <<"Embedding strategy detail not found for ", uri>>

get_retrieval_strategy_detail(uri) ==
    IF uri \in RetrievalUris THEN <<"#", uri>>
    ELSE <<"Retrieval strategy detail not found for ", uri>>

\* content_generators of _setup_resources: uri string -> content function
content_generators ==
    [s \in {CatalogUriStrings[i] : i \in 1..8} |->
        CASE s = "graphrag://overview" -> "get_overview_content"
          [] s = "graphrag://construction-patterns" -> "get_construction_patterns_content"
          [] s = "graphrag://embedding-strategies" -> "get_embedding_strategies_content"
          [] s = "graphrag://retrieval-strategies" -> "get_retrieval_strategies_content"
          [] s = "graphrag://architectural-tradeoffs" -> "get_architectural_tradeoffs_content"
          [] s = "graphrag://literature-landscape" -> "get_literature_landscape_content"
          [] s = "graphrag://technology-stacks" -> "get_technology_stacks_content"
          [] s = "graphrag://pattern-catalog" -> "get_pattern_catalog_content"]

\* -------------------------------------------------------- resource generators
\* A bound generator is one of: a content function; a closure made by one of
\* the make_*_generator factories, holding its uri_str; or a callable supplied
\* by a client of the registry, which returns a text or raises.
FnGen(fn) == [kind |-> "fn", fn |-> fn, uri |-> "", text |-> <<>>]
\* a closure that reads the loop variable when it runs: after the loop that is
\* the key of the last catalog entry
DetailGen_late_binding(fn, uri_str) ==
    [kind |-> "detail", fn |-> fn, uri |-> CatalogUriStrings[Len(CatalogUriStrings)],
     text |-> <<>>]
DetailGen(fn, uri_str) == [kind |-> "detail", fn |-> fn, uri |-> uri_str, text |-> <<>>]
ConstGen(text) == [kind |-> "const", fn |-> "", uri |-> "", text |-> text]
RaisingGen == [kind |-> "raise", fn |-> "", uri |-> "", text |-> <<>>]
NoGen == [kind |-> "none", fn |-> "", uri |-> "", text |-> <<>>]

\* await generator()
RunGen(g) ==
    CASE g.kind = "fn" -> Return(DirectContent(g.fn))
      [] g.kind = "detail" /\ g.fn = "get_construction_pattern_detail" ->
            Return(get_construction_pattern_detail(g.uri))
      [] g.kind = "detail" /\ g.fn = "get_embedding_strategy_detail" ->
            Return(get_embedding_strategy_detail(g.uri))
      [] g.kind = "detail" /\ g.fn = "get_retrieval_strategy_detail" ->
            Return(get_retrieval_strategy_detail(g.uri))
      [] g.kind = "const" -> Return(g.text)
      [] g.kind = "raise" -> Raise(RuntimeError("generator failed"))

\* ------------------------------------------------------------------- prompts
GRAPHRAG_PROMPTS == <<
    [name |-> "analyze-graphrag-pattern",
     arguments |-> <<[name |-> "use_case", required |-> TRUE],
                     [name |-> "constraints", required |-> FALSE]>>],
    [name |-> "design-knowledge-graph",
     arguments |-> <<[name |-> "domain", required |-> TRUE],
                     [name |-> "data_sources", required |-> TRUE],
                     [name |-> "query_types", required |-> FALSE]>>],
    [name |-> "implement-retrieval-strategy",
     arguments |-> <<[name |-> "strategy", required |-> TRUE],
                     [name |-> "technology_stack", required |-> FALSE]>>],
    [name |-> "compare-architectures",
     arguments |-> <<[name |-> "requirements", required |-> TRUE]>>]
>>

\* prompt_generators of _setup_prompts: prompt name -> generator function
prompt_generators ==
    [n \in {GRAPHRAG_PROMPTS[i].name : i \in 1..Len(GRAPHRAG_PROMPTS)} |->
        CASE n = "analyze-graphrag-pattern" -> "generate_analyze_pattern_prompt"
          [] n = "design-knowledge-graph" -> "generate_design_knowledge_graph_prompt"
          [] n = "implement-retrieval-strategy" -> "generate_implement_retrieval_strategy_prompt"
          [] n = "compare-architectures" -> "generate_compare_architectures_prompt"]

\* arguments.get(name, default); a mapping is a function from names to values
ArgGet(arguments, n, default) == IF n \in DOMAIN arguments THEN arguments[n] ELSE default
\* "not value"
Falsy(v) == v = ""

\* types.GetPromptResult with one user message
OneMessage(description, text) ==
    [description |-> description, messages |-> <<[role |-> "user", text |-> text]>>]

\* generate_analyze_pattern_prompt with the empty string as default of constraints
generate_analyze_pattern_prompt_empty_default(arguments) ==
    LET use_case == ArgGet(arguments, "use_case", "")
        constraints == ArgGet(arguments, "constraints", "")
    IN OneMessage(<<"Analysis of best GraphRAG patterns for the specified use case">>,
                  <<"analyze the best pattern(s) for this use case:\n\n**Use Case**: ",
                    use_case, "\n**Constraints**: ", constraints, "\n\nPlease consider:">>)

generate_analyze_pattern_prompt(arguments) ==
    LET use_case == ArgGet(arguments, "use_case", "")
        constraints == ArgGet(arguments, "constraints", "Not specified")
    IN OneMessage(<<"Analysis of best GraphRAG patterns for the specified use case">>,
                  <<"analyze the best pattern(s) for this use case:\n\n**Use Case**: ",
                    use_case, "\n**Constraints**: ", constraints, "\n\nPlease consider:">>)

\* generate_design_knowledge_graph_prompt that never reads query_types
generate_design_knowledge_graph_prompt_fixed_query_types(arguments) ==
    LET domain == ArgGet(arguments, "domain", "")
        data_sources == ArgGet(arguments, "data_sources", "")
    IN OneMessage(<<"Knowledge graph design guidance for the specified domain">>,
                  <<"Design a knowledge graph structure for LLM integration:\n\n**Domain**: ",
                    domain, "\n**Data Sources**: ", data_sources,
                    "\n**Expected Query Types**: ", "Not specified", "\n\nBased on">>)

generate_design_knowledge_graph_prompt(arguments) ==
    LET domain == ArgGet(arguments, "domain", "")
        data_sources == ArgGet(arguments, "data_sources", "")
        query_types == ArgGet(arguments, "query_types", "Not specified")
    IN OneMessage(<<"Knowledge graph design guidance for the specified domain">>,
                  <<"Design a knowledge graph structure for LLM integration:\n\n**Domain**: ",
                    domain, "\n**Data Sources**: ", data_sources,
                    "\n**Expected Query Types**: ", query_types, "\n\nBased on">>)

generate_implement_retrieval_strategy_prompt(arguments) ==
    LET strategy == ArgGet(arguments, "strategy", "")
        tech_stack == ArgGet(arguments, "technology_stack", "Open to suggestions")
    IN OneMessage(<<"Implementation guidance for ", strategy>>,
                  <<"Provide implementation guidance for the ", strategy,
                    " retrieval strategy:\n\n**Technology Stack Preference**: ", tech_stack,
                    "\n\nDetailed mechanics of how ", strategy, " works">>)

generate_compare_architectures_prompt(arguments) ==
    LET requirements == ArgGet(arguments, "requirements", "")
    IN OneMessage(<<"Architectural comparison for the specified requirements">>,
                  <<"Compare graph model architectures for these requirements:\n\n**Requirements**: ",
                    requirements, "\n\nBased on the architectural trade-offs analysis">>)

\* A bound prompt generator: one of the four generator functions, or a
\* callable supplied by a client of the registry that returns a result with
\* no messages, or that raises.
PromptFnGen(fn) == [kind |-> "fn", fn |-> fn]
EmptyPromptGen == [kind |-> "empty", fn |-> ""]
RaisingPromptGen == [kind |-> "raise", fn |-> ""]

\* await generator(arguments)
RunPromptGen(g, arguments) ==
    CASE g.kind = "fn" /\ g.fn = "generate_analyze_pattern_prompt" ->
            Return(generate_analyze_pattern_prompt(arguments))
      [] g.kind = "fn" /\ g.fn = "generate_design_knowledge_graph_prompt" ->
            Return(generate_design_knowledge_graph_prompt(arguments))
      [] g.kind = "fn" /\ g.fn = "generate_implement_retrieval_strategy_prompt" ->
            Return(generate_implement_retrieval_strategy_prompt(arguments))
      [] g.kind = "fn" /\ g.fn = "generate_compare_architectures_prompt" ->
            Return(generate_compare_architectures_prompt(arguments))
      [] g.kind = "empty" -> Return([description |-> <<"empty">>, messages |-> <<>>])
      [] g.kind = "raise" -> Raise(RuntimeError("prompt generator failed"))

\* --------------------------------------------------------------------- tools
\* names of GRAPHRAG_TOOLS with the arguments each inputSchema requires
GRAPHRAG_TOOLS == <<
    [name |-> "query_graphrag_resource", required |-> <<"resource_uri">>],
    [name |-> "get_construction_patterns", required |-> <<>>],
    [name |-> "get_embedding_strategies", required |-> <<>>],
    [name |-> "get_retrieval_strategies", required |-> <<>>],
    [name |-> "get_architectural_tradeoffs", required |-> <<>>],
    [name |-> "get_technology_stacks", required |-> <<>>],
    [name |-> "analyze_graphrag_pattern", required |-> <<"use_case">>],
    [name |-> "compare_architectures", required |-> <<"use_case">>],
    [name |-> "design_knowledge_graph", required |-> <<"domain">>],
    [name |-> "implement_retrieval_strategy", required |-> <<"strategy">>]
>>

\* --------------------------------------------------------------------- state
VARIABLES
    pc,                   \* progress of GraphRAGMCPServer.__init__
    max_content_length,   \* ServerConfig.max_content_length
    catalog,              \* the lists GRAPHRAG_RESOURCES and GRAPHRAG_PROMPTS the server imports
    _resources,           \* ResourceRegistry._resources
    _content_generators,  \* ResourceRegistry._content_generators
    _prompts,             \* PromptRegistry._prompts
    _generators,          \* PromptRegistry._generators
    _tool_handlers,       \* ToolRegistry._tool_handlers
    _resource_handler,    \* ToolRegistry._resource_handler
    _prompt_handler,      \* ToolRegistry._prompt_handler
    last,                 \* the most recent call: what was asked, what came back,
                          \* and which generators and delegates it invoked
    in_flight             \* the requests the event loop holds between dispatch and reply

vars == <<pc, max_content_length, catalog, _resources, _content_generators, _prompts, _generators,
          _tool_handlers, _resource_handler, _prompt_handler, last, in_flight>>

registries == <<_resources, _content_generators, _prompts, _generators,
                _tool_handlers, _resource_handler, _prompt_handler>>

None == "None"

\* one invocation of a bound generator or of an injected delegate
Invoked(what, key, name, arguments) ==
    [what |-> what, key |-> key, name |-> name, arguments |-> arguments]

NoArgs == <<>>

\* ----------------------------------------------------------- ResourceRegistry
\* get_content with the membership test inside the try block, so that the
\* not-found error is wrapped like a generator failure
get_content_lookup_in_try(uri) ==
    IF ~DictHas(_content_generators, uri)
    THEN [out |-> Raise(ContentGenerationError(uri, ExcStr(ResourceNotFoundError(uri)))),
          calls |-> <<>>]
    ELSE LET r == RunGen(DictGet(_content_generators, uri))
         IN [out |-> IF r.ok THEN Return(r.val)
                     ELSE Raise(ContentGenerationError(uri, ExcStr(r.exc))),
             calls |-> <<Invoked("content_generator", uri, "", NoArgs)>>]

\* get_content that invokes the generator a second time when it raised
get_content_retrying(uri) ==
    IF ~DictHas(_content_generators, uri)
    THEN [out |-> Raise(ResourceNotFoundError(uri)), calls |-> <<>>]
    ELSE LET r == RunGen(DictGet(_content_generators, uri))
         IN [out |-> IF r.ok THEN Return(r.val)
                     ELSE Raise(ContentGenerationError(uri, ExcStr(r.exc))),
             calls |-> IF r.ok THEN <<Invoked("content_generator", uri, "", NoArgs)>>
                       ELSE <<Invoked("content_generator", uri, "", NoArgs),
                              Invoked("content_generator", uri, "", NoArgs)>>]

\* get_content that serves the content without awaiting the generator
get_content_from_cache(uri) ==
    IF ~DictHas(_content_generators, uri)
    THEN [out |-> Raise(ResourceNotFoundError(uri)), calls |-> <<>>]
    ELSE LET r == RunGen(DictGet(_content_generators, uri))
         IN [out |-> IF r.ok THEN Return(r.val)
                     ELSE Raise(ContentGenerationError(uri, ExcStr(r.exc))),
             calls |-> <<>>]

\* async get_content(uri): result and the generators it invoked
get_content(uri) ==
    IF ~DictHas(_content_generators, uri)
    THEN [out |-> Raise(ResourceNotFoundError(uri)), calls |-> <<>>]
    ELSE LET r == RunGen(DictGet(_content_generators, uri))
         IN [out |-> IF r.ok THEN Return(r.val)
                     ELSE Raise(ContentGenerationError(uri, ExcStr(r.exc))),
             calls |-> <<Invoked("content_generator", uri, "", NoArgs)>>]

\* has_resource(uri)
has_resource(uri) == DictHas(_resources, uri)

\* get_resource(uri)
get_resource(uri) ==
    IF ~DictHas(_resources, uri) THEN Raise(ResourceNotFoundError(uri))
    ELSE Return(DictGet(_resources, uri))

\* ------------------------------------------------------------- PromptRegistry
\* async generate_prompt(name, arguments)
generate_prompt(name, arguments) ==
    IF ~DictHas(_generators, name)
    THEN [out |-> Raise(PromptNotFoundError(name)), calls |-> <<>>]
    ELSE LET r == RunPromptGen(DictGet(_generators, name), arguments)
         IN [out |-> IF r.ok THEN Return(r.val) ELSE Raise(r.exc),
             calls |-> <<Invoked("prompt_generator", NoKey, name, arguments)>>]

\* --------------------------------------------------------------- ToolRegistry
\* has_prompt(name)
has_prompt(name) == DictHas(_prompts, name)

\* get_prompt(name)
get_prompt(name) ==
    IF ~DictHas(_prompts, name) THEN Raise(PromptNotFoundError(name))
    ELSE Return(DictGet(_prompts, name))

\* await self._resource_handler(uri), the handler being ResourceRegistry.get_content
CallResourceHandler(uri) ==
    LET r == get_content(uri)
    IN [out |-> r.out, calls |-> <<Invoked("resource_handler", uri, "", NoArgs)>> \o r.calls]

\* a prompt delegate supplied by a client of the tool registry: it returns a
\* result without messages for every prompt name
EMPTY_PROMPT_HANDLER == "client_empty_prompt_handler"

\* await self._prompt_handler(name, prompt_args), the handler being
\* PromptRegistry.generate_prompt or the delegate a client injected
CallPromptHandler(name, prompt_args) ==
    LET r == IF _prompt_handler = EMPTY_PROMPT_HANDLER
             THEN [out |-> Return([description |-> <<"empty">>, messages |-> <<>>]),
                   calls |-> <<>>]
             ELSE generate_prompt(name, prompt_args)
    IN [out |-> r.out,
        calls |-> <<Invoked("prompt_handler", NoKey, name, prompt_args)>> \o r.calls]

Fail(e) == [out |-> Raise(e), calls |-> <<>>]

NO_RESPONSE == <<"No response generated">>

\* the text of the first message taken without looking whether there is one
FirstMessageText_unguarded(r) ==
    IF ~r.out.ok THEN r
    ELSE [out |-> IF Len(r.out.val.messages) > 0 THEN Return(r.out.val.messages[1].text)
                  ELSE Raise(RuntimeError("list index out of range")),
          calls |-> r.calls]

\* result.messages[0].content.text if result.messages else "No response generated"
FirstMessageText(r) ==
    IF ~r.out.ok THEN r
    ELSE [out |-> Return(IF Len(r.out.val.messages) > 0
                         THEN r.out.val.messages[1].text ELSE NO_RESPONSE),
          calls |-> r.calls]

_handle_query_resource(arguments) ==
    IF _resource_handler = None
    THEN Fail(ToolExecutionError("query_graphrag_resource", <<"Resource handler not configured">>))
    ELSE LET resource_uri == ArgGet(arguments, "resource_uri", "")
         IN IF Falsy(resource_uri)
            THEN Fail(ToolExecutionError("query_graphrag_resource", <<"resource_uri", " is required">>))
            ELSE CallResourceHandler(Str(resource_uri))

\* the five _handle_get_* methods: tool name and the uri literal each one reads
DirectResourceHandler(tool, uri) ==
    IF _resource_handler = None
    THEN Fail(ToolExecutionError(tool, <<"Resource handler not configured">>))
    ELSE CallResourceHandler(Str(uri))

_handle_get_construction_patterns(arguments) ==
    DirectResourceHandler("get_construction_patterns", "graphrag://construction-patterns")
_handle_get_embedding_strategies(arguments) ==
    DirectResourceHandler("get_embedding_strategies", "graphrag://embedding-strategies")
_handle_get_retrieval_strategies(arguments) ==
    DirectResourceHandler("get_retrieval_strategies", "graphrag://retrieval-strategies")
_handle_get_architectural_tradeoffs(arguments) ==
    DirectResourceHandler("get_architectural_tradeoffs", "graphrag://architectural-tradeoffs")
_handle_get_technology_stacks(arguments) ==
    DirectResourceHandler("get_technology_stacks", "graphrag://technology-stacks")

\* _handle_analyze_pattern that validates use_case before it looks at the delegate
_handle_analyze_pattern_validating_first(arguments) ==
    LET use_case == ArgGet(arguments, "use_case", "")
    IN IF Falsy(use_case)
       THEN Fail(ToolExecutionError("analyze_graphrag_pattern", <<"use_case", " is required">>))
       ELSE IF _prompt_handler = None
       THEN Fail(ToolExecutionError("analyze_graphrag_pattern",
                                    <<"Prompt handler not configured">>))
       ELSE FirstMessageText(CallPromptHandler("analyze-graphrag-pattern",
                    [use_case |-> use_case,
                     requirements |-> ArgGet(arguments, "requirements", ""),
                     data_types |-> ArgGet(arguments, "data_types", "")]))

_handle_analyze_pattern(arguments) ==
    IF _prompt_handler = None
    THEN Fail(ToolExecutionError("analyze_graphrag_pattern", <<"Prompt handler not configured">>))
    ELSE LET use_case == ArgGet(arguments, "use_case", "")
         IN IF Falsy(use_case)
            THEN Fail(ToolExecutionError("analyze_graphrag_pattern", <<"use_case", " is required">>))
            ELSE FirstMessageText(CallPromptHandler("analyze-graphrag-pattern",
                    [use_case |-> use_case,
                     requirements |-> ArgGet(arguments, "requirements", ""),
                     data_types |-> ArgGet(arguments, "data_types", "")]))

\* _handle_compare_architectures that delegates to the prompt of another tool
_handle_compare_architectures_wrong_prompt(arguments) ==
    IF _prompt_handler = None
    THEN Fail(ToolExecutionError("compare_architectures", <<"Prompt handler not configured">>))
    ELSE LET use_case == ArgGet(arguments, "use_case", "")
         IN IF Falsy(use_case)
            THEN Fail(ToolExecutionError("compare_architectures", <<"use_case", " is required">>))
            ELSE FirstMessageText(CallPromptHandler("analyze-graphrag-pattern",
                    [use_case |-> use_case,
                     scale |-> ArgGet(arguments, "scale", ""),
                     performance_requirements |->
                        ArgGet(arguments, "performance_requirements", "")]))

_handle_compare_architectures(arguments) ==
    IF _prompt_handler = None
    THEN Fail(ToolExecutionError("compare_architectures", <<"Prompt handler not configured">>))
    ELSE LET use_case == ArgGet(arguments, "use_case", "")
         IN IF Falsy(use_case)
            THEN Fail(ToolExecutionError("compare_architectures", <<"use_case", " is required">>))
            ELSE FirstMessageText(CallPromptHandler("compare-architectures",
                    [use_case |-> use_case,
                     scale |-> ArgGet(arguments, "scale", ""),
                     performance_requirements |->
                        ArgGet(arguments, "performance_requirements", "")]))

\* _handle_design_knowledge_graph without the check of its required argument
_handle_design_knowledge_graph_unchecked(arguments) ==
    IF _prompt_handler = None
    THEN Fail(ToolExecutionError("design_knowledge_graph", <<"Prompt handler not configured">>))
    ELSE FirstMessageText(CallPromptHandler("design-knowledge-graph",
                    [domain |-> ArgGet(arguments, "domain", ""),
                     data_sources |-> ArgGet(arguments, "data_sources", ""),
                     integration_requirements |->
                        ArgGet(arguments, "integration_requirements", "")]))

_handle_design_knowledge_graph(arguments) ==
    IF _prompt_handler = None
    THEN Fail(ToolExecutionError("design_knowledge_graph", <<"Prompt handler not configured">>))
    ELSE LET domain == ArgGet(arguments, "domain", "")
         IN IF Falsy(domain)
            THEN Fail(ToolExecutionError("design_knowledge_graph", <<"domain", " is required">>))
            ELSE FirstMessageText(CallPromptHandler("design-knowledge-graph",
                    [domain |-> domain,
                     data_sources |-> ArgGet(arguments, "data_sources", ""),
                     integration_requirements |->
                        ArgGet(arguments, "integration_requirements", "")]))

\* _handle_implement_retrieval_strategy that refuses only an absent strategy
_handle_implement_retrieval_strategy_checking_presence(arguments) ==
    IF _prompt_handler = None
    THEN Fail(ToolExecutionError("implement_retrieval_strategy", <<"Prompt handler not configured">>))
    ELSE IF "strategy" \notin DOMAIN arguments
         THEN Fail(ToolExecutionError("implement_retrieval_strategy",
                                      <<"strategy", " is required">>))
         ELSE FirstMessageText(CallPromptHandler("implement-retrieval-strategy",
                    [strategy |-> arguments["strategy"],
                     technology_stack |-> ArgGet(arguments, "technology_stack", ""),
                     use_case |-> ArgGet(arguments, "use_case", "")]))

_handle_implement_retrieval_strategy(arguments) ==
    IF _prompt_handler = None
    THEN Fail(ToolExecutionError("implement_retrieval_strategy", <<"Prompt handler not configured">>))
    ELSE LET strategy == ArgGet(arguments, "strategy", "")
         IN IF Falsy(strategy)
            THEN Fail(ToolExecutionError("implement_retrieval_strategy", <<"strategy", " is required">>))
            ELSE FirstMessageText(CallPromptHandler("implement-retrieval-strategy",
                    [strategy |-> strategy,
                     technology_stack |-> ArgGet(arguments, "technology_stack", ""),
                     use_case |-> ArgGet(arguments, "use_case", "")]))

\* await self._tool_handlers[name](arguments); a handler is named by its method,
\* or is a callable supplied by a client of the registry that raises
RAISING_HANDLER == "client_raising_handler"

RunHandler(h, arguments) ==
    CASE h = "_handle_query_resource" -> _handle_query_resource(arguments)
      [] h = "_handle_get_construction_patterns" -> _handle_get_construction_patterns(arguments)
      [] h = "_handle_get_embedding_strategies" -> _handle_get_embedding_strategies(arguments)
      [] h = "_handle_get_retrieval_strategies" -> _handle_get_retrieval_strategies(arguments)
      [] h = "_handle_get_architectural_tradeoffs" ->
            _handle_get_architectural_tradeoffs(arguments)
      [] h = "_handle_get_technology_stacks" -> _handle_get_technology_stacks(arguments)
      [] h = "_handle_analyze_pattern" -> _handle_analyze_pattern(arguments)
      [] h = "_handle_compare_architectures" -> _handle_compare_architectures(arguments)
      [] h = "_handle_design_knowledge_graph" -> _handle_design_knowledge_graph(arguments)
      [] h = "_handle_implement_retrieval_strategy" ->
            _handle_implement_retrieval_strategy(arguments)
      [] h = RAISING_HANDLER -> Fail(RuntimeError("handler failed"))

\* execute_tool that re-raises the errors of the taxonomy and wraps only others
execute_tool_reraising_typed(name, arguments) ==
    IF ~DictHas(_tool_handlers, name)
    THEN [out |-> Raise(ToolNotFoundError(name)), calls |-> <<>>]
    ELSE LET r == RunHandler(DictGet(_tool_handlers, name), arguments)
         IN [out |-> IF r.out.ok THEN Return(r.out.val)
                     ELSE IF r.out.exc.code # "" THEN Raise(r.out.exc)
                     ELSE Raise(ToolExecutionError(name, ExcStr(r.out.exc))),
             calls |-> <<Invoked("tool_handler", NoKey, name, arguments)>> \o r.calls]

\* execute_tool that lets a ToolExecutionError of the handler through as it is
execute_tool_passing_tool_errors(name, arguments) ==
    IF ~DictHas(_tool_handlers, name)
    THEN [out |-> Raise(ToolNotFoundError(name)), calls |-> <<>>]
    ELSE LET r == RunHandler(DictGet(_tool_handlers, name), arguments)
         IN [out |-> IF r.out.ok THEN Return(r.out.val)
                     ELSE IF r.out.exc.cls = "ToolExecutionError" THEN Raise(r.out.exc)
                     ELSE Raise(ToolExecutionError(name, ExcStr(r.out.exc))),
             calls |-> <<Invoked("tool_handler", NoKey, name, arguments)>> \o r.calls]

\* async execute_tool(name, arguments)
execute_tool(name, arguments) ==
    IF ~DictHas(_tool_handlers, name)
    THEN [out |-> Raise(ToolNotFoundError(name)), calls |-> <<>>]
    ELSE LET r == RunHandler(DictGet(_tool_handlers, name), arguments)
         IN [out |-> IF r.out.ok THEN Return(r.out.val)
                     ELSE Raise(ToolExecutionError(name, ExcStr(r.out.exc))),
             calls |-> <<Invoked("tool_handler", NoKey, name, arguments)>> \o r.calls]

\* ------------------------------------------------------------ server startup
\* the generator _setup_resources binds to a catalog entry, NoGen when it only
\* logs the warning
\* the generator choice of _setup_resources without the branch for retrieval details
GeneratorFor_without_retrieval(resource) ==
    LET uri_str == PyStr(resource.uri)
    IN IF uri_str \in DOMAIN content_generators THEN FnGen(content_generators[uri_str])
       ELSE IF StartsWith(PyStr(resource.uri), PATTERNS_PREFIX)
            THEN DetailGen("get_construction_pattern_detail", PyStr(resource.uri))
       ELSE IF StartsWith(PyStr(resource.uri), EMBEDDINGS_PREFIX)
            THEN DetailGen("get_embedding_strategy_detail", PyStr(resource.uri))
       ELSE NoGen

GeneratorFor(resource) ==
    LET uri_str == PyStr(resource.uri)
    IN IF uri_str \in DOMAIN content_generators THEN FnGen(content_generators[uri_str])
       ELSE IF StartsWith(PyStr(resource.uri), PATTERNS_PREFIX)
            THEN DetailGen("get_construction_pattern_detail", PyStr(resource.uri))
       ELSE IF StartsWith(PyStr(resource.uri), EMBEDDINGS_PREFIX)
            THEN DetailGen("get_embedding_strategy_detail", PyStr(resource.uri))
       ELSE IF StartsWith(PyStr(resource.uri), RETRIEVAL_PREFIX)
            THEN DetailGen("get_retrieval_strategy_detail", PyStr(resource.uri))
       ELSE NoGen

\* register_resource that keeps the generator of a key that is already bound
register_resource_keeping_first(reg, resource, content_generator) ==
    [resources |-> DictSet(reg.resources, resource.uri, resource),
     generators |-> IF DictHas(reg.generators, resource.uri) THEN reg.generators
                    ELSE DictSet(reg.generators, resource.uri, content_generator)]

\* register_resource that stores the definition and leaves binding the
\* generator to a later call
register_resource_definition_only(reg, resource, content_generator) ==
    [resources |-> DictSet(reg.resources, resource.uri, resource),
     generators |-> reg.generators]

\* register_resource(resource, content_generator) on the pair of dicts
register_resource(reg, resource, content_generator) ==
    [resources |-> DictSet(reg.resources, resource.uri, resource),
     generators |-> DictSet(reg.generators, resource.uri, content_generator)]

\* the loop of _setup_resources: register_resource for every catalog entry, in
\* catalog order, that GeneratorFor binds
BoundResourcesOf(resources) == SelectSeq(resources, LAMBDA r : GeneratorFor(r) # NoGen)
setup_resources_from(resources, reg) ==
    LET bound == BoundResourcesOf(resources)
    IN [resources |-> DictUpdate(reg.resources,
            [i \in 1..Len(bound) |-> [k |-> bound[i].uri, v |-> bound[i]]]),
        generators |-> DictUpdate(reg.generators,
            [i \in 1..Len(bound) |-> [k |-> bound[i].uri, v |-> GeneratorFor(bound[i])]])]

\* the loop over the catalog as it is shipped
setup_resources(reg) == setup_resources_from(GRAPHRAG_RESOURCES, reg)

\* register_prompt(prompt, generator) on the pair of dicts
register_prompt(reg, prompt, generator) ==
    [prompts |-> DictSet(reg.prompts, prompt.name, prompt),
     generators |-> DictSet(reg.generators, prompt.name, generator)]

\* the loop of _setup_prompts: register_prompt for every catalog entry, in
\* catalog order, whose name is in prompt_generators
BoundPromptsOf(prompts) == SelectSeq(prompts, LAMBDA p : p.name \in DOMAIN prompt_generators)
setup_prompts_from(prompts, reg) ==
    LET bound == BoundPromptsOf(prompts)
    IN [prompts |-> DictUpdate(reg.prompts,
            [i \in 1..Len(bound) |-> [k |-> bound[i].name, v |-> bound[i]]]),
        generators |-> DictUpdate(reg.generators,
            [i \in 1..Len(bound) |->
                [k |-> bound[i].name, v |-> PromptFnGen(prompt_generators[bound[i].name])]])]

\* the loop over the catalog as it is shipped
setup_prompts(reg) == setup_prompts_from(GRAPHRAG_PROMPTS, reg)

\* the two module-level lists the server imports, as the package ships them
SHIPPED_CATALOG == [resources |-> GRAPHRAG_RESOURCES, prompts |-> GRAPHRAG_PROMPTS]

\* register_tool(name, handler)
register_tool(handlers, name, handler) == DictSet(handlers, name, handler)

\* register_all_tools(): the ten register_tool calls, in order
ALL_TOOL_HANDLERS == <<
    [k |-> "query_graphrag_resource", v |-> "_handle_query_resource"],
    [k |-> "get_construction_patterns", v |-> "_handle_get_construction_patterns"],
    [k |-> "get_embedding_strategies", v |-> "_handle_get_embedding_strategies"],
    [k |-> "get_retrieval_strategies", v |-> "_handle_get_retrieval_strategies"],
    [k |-> "get_architectural_tradeoffs", v |-> "_handle_get_architectural_tradeoffs"],
    [k |-> "get_technology_stacks", v |-> "_handle_get_technology_stacks"],
    [k |-> "analyze_graphrag_pattern", v |-> "_handle_analyze_pattern"],
    [k |-> "compare_architectures", v |-> "_handle_compare_architectures"],
    [k |-> "design_knowledge_graph", v |-> "_handle_design_knowledge_graph"],
    [k |-> "implement_retrieval_strategy", v |-> "_handle_implement_retrieval_strategy"]
>>
\* register_all_tools that registers the prompt execution tools first
register_all_tools_prompt_tools_first(handlers) ==
    DictUpdate(handlers, SubSeq(ALL_TOOL_HANDLERS, 7, 10) \o SubSeq(ALL_TOOL_HANDLERS, 1, 6))
register_all_tools(handlers) == DictUpdate(handlers, ALL_TOOL_HANDLERS)

\* no call is in progress and no result is waiting to be taken
Idle ==
    [op |-> "idle", key |-> NoKey, name |-> "", arguments |-> NoArgs,
     out |-> Return(<<>>), calls |-> <<>>]

LimitChoices == (0..MaxLimit) \cup {DEFAULT_MAX_CONTENT_LENGTH}

\* a slot of the event loop that holds no request
NoRequest ==
    [stage |-> "free", op |-> "", key |-> NoKey, name |-> "", arguments |-> NoArgs,
     out |-> Return(<<>>)]
NoneInFlight == [i \in 1..MaxInFlight |-> NoRequest]

\* GraphRAGMCPServer.__init__ up to the creation of the three empty registries
Init ==
    /\ pc = "registries"
    /\ in_flight = NoneInFlight
    /\ catalog = SHIPPED_CATALOG
    /\ last = Idle
    /\ max_content_length \in LimitChoices
    /\ _resources = <<>>
    /\ _content_generators = <<>>
    /\ _prompts = <<>>
    /\ _generators = <<>>
    /\ _tool_handlers = <<>>
    /\ _resource_handler = None
    /\ _prompt_handler = None
    /\ last = Idle

SetupResources ==
    /\ pc = "registries"
    /\ last = Idle
    /\ LET reg == setup_resources_from(catalog.resources,
                                         [resources |-> _resources,
                                          generators |-> _content_generators])
       IN /\ _resources' = reg.resources
          /\ _content_generators' = reg.generators
    /\ pc' = "resources"
    /\ last' = Idle
    /\ UNCHANGED <<max_content_length, catalog, in_flight, _prompts, _generators, _tool_handlers,
                   _resource_handler, _prompt_handler>>

SetupPrompts ==
    /\ pc = "resources"
    /\ last = Idle
    /\ LET reg == setup_prompts_from(catalog.prompts,
                                       [prompts |-> _prompts, generators |-> _generators])
       IN /\ _prompts' = reg.prompts
          /\ _generators' = reg.generators
    /\ pc' = "prompts"
    /\ last' = Idle
    /\ UNCHANGED <<max_content_length, catalog, in_flight, _resources, _content_generators, _tool_handlers,
                   _resource_handler, _prompt_handler>>

SetupTools ==
    /\ pc = "prompts"
    /\ last = Idle
    /\ _resource_handler' = "get_content"
    /\ _prompt_handler' = "generate_prompt"
    /\ _tool_handlers' = register_all_tools(_tool_handlers)
    /\ pc' = "tools"
    /\ last' = Idle
    /\ UNCHANGED <<max_content_length, catalog, in_flight, _resources, _content_generators, _prompts, _generators>>

\* __init__ that calls _setup_handlers before _setup_tools
SetupHandlers_before_tools ==
    /\ pc = "prompts"
    /\ last = Idle
    /\ pc' = "ready"
    /\ last' = Idle
    /\ UNCHANGED <<max_content_length, catalog, in_flight, registries>>

\* _setup_handlers: from here on the protocol runtime can dispatch requests
SetupHandlers ==
    /\ pc = "tools"
    /\ last = Idle
    /\ pc' = "ready"
    /\ last' = Idle
    /\ UNCHANGED <<max_content_length, catalog, in_flight, registries>>

\* ------------------------------------------------------------------- inputs
UNKNOWN_URI == "graphrag://nonexistent"
CLIENT_URI == "graphrag://client-extra"
UriStrings == CatalogUriSet \cup {UNKNOWN_URI, CLIENT_URI}

PromptNames == {GRAPHRAG_PROMPTS[i].name : i \in 1..Len(GRAPHRAG_PROMPTS)}
UNKNOWN_PROMPT == "no-such-prompt"
ToolNames == {GRAPHRAG_TOOLS[i].name : i \in 1..Len(GRAPHRAG_TOOLS)}
UNKNOWN_TOOL == "no_such_tool"
CLIENT_TOOL == "client_tool"

\* mappings over a set of names: each name absent or bound to one of its values
ArgMaps(names, values) == UNION {[S -> values] : S \in SUBSET names}

\* the value a client supplies for a prompt argument: one value per argument
\* name, so that the place each value lands in can be told apart
PromptArgValue ==
    [use_case |-> "USE_CASE", constraints |-> "CONSTRAINTS", domain |-> "DOMAIN",
     data_sources |-> "DATA_SOURCES", query_types |-> "QUERY_TYPES",
     strategy |-> "STRATEGY", technology_stack |-> "TECHNOLOGY_STACK",
     requirements |-> "REQUIREMENTS"]

\* the declared arguments of a prompt, each absent or supplied
PromptArgMaps(names) == {[n \in S |-> PromptArgValue[n]] : S \in SUBSET names}

PromptArgs(name) ==
    CASE name = "analyze-graphrag-pattern" -> PromptArgMaps({"use_case", "constraints"})
      [] name = "design-knowledge-graph" ->
            PromptArgMaps({"domain", "data_sources", "query_types"})
      [] name = "implement-retrieval-strategy" ->
            PromptArgMaps({"strategy", "technology_stack"})
      [] name = "compare-architectures" -> PromptArgMaps({"requirements"})
      [] OTHER -> {NoArgs}

\* the required argument of a tool absent, empty or "X"; each other argument
\* absent or "Y"
ToolArgMaps(required, optional) ==
    {r @@ o : r \in ArgMaps({required}, {"", "X"}), o \in ArgMaps(optional, {"Y"})}

ToolArgs(name, uris) ==
    CASE name = "query_graphrag_resource" -> ArgMaps({"resource_uri"}, uris \cup {""})
      [] name = "analyze_graphrag_pattern" ->
            ToolArgMaps("use_case", {"requirements", "data_types"})
      [] name = "compare_architectures" ->
            ToolArgMaps("use_case", {"scale", "performance_requirements"})
      [] name = "design_knowledge_graph" ->
            ToolArgMaps("domain", {"data_sources", "integration_requirements"})
      [] name = "implement_retrieval_strategy" ->
            ToolArgMaps("strategy", {"technology_stack", "use_case"})
      [] OTHER -> {NoArgs, [unused |-> "X"]}

\* ------------------------------------------------------------ registry calls
Called(op, key, name, arguments, r) ==
    [op |-> op, key |-> key, name |-> name, arguments |-> arguments,
     out |-> r.out, calls |-> r.calls]

\* get_content that unbinds a key whose generator failed
GetContent_evicting(uri) ==
    /\ last = Idle
    /\ last' = Called("get_content", uri, "", NoArgs, get_content(uri))
    /\ _content_generators' =
          IF DictHas(_content_generators, uri) /\ ~get_content(uri).out.ok
          THEN SelectSeq(_content_generators, LAMBDA e : e.k # uri)
          ELSE _content_generators
    /\ UNCHANGED <<pc, max_content_length, catalog, in_flight, _resources, _prompts, _generators,
                   _tool_handlers, _resource_handler, _prompt_handler>>

GetContent(uri) ==
    /\ last = Idle
    /\ last' = Called("get_content", uri, "", NoArgs, get_content(uri))
    /\ UNCHANGED <<pc, max_content_length, catalog, in_flight, registries>>

\* the caller reads the key it has just read once more
GetContentAgain ==
    /\ last.op = "get_content"
    /\ last' = [op |-> "get_content_again", key |-> last.key, name |-> "", arguments |-> NoArgs,
                out |-> get_content(last.key).out, calls |-> get_content(last.key).calls,
                previous |-> last.out, previous_calls |-> last.calls]
    /\ UNCHANGED <<pc, max_content_length, catalog, in_flight, registries>>

GeneratePrompt(name, arguments) ==
    /\ last = Idle
    /\ last' = Called("generate_prompt", NoKey, name, arguments,
                      generate_prompt(name, arguments))
    /\ UNCHANGED <<pc, max_content_length, catalog, in_flight, registries>>

ExecuteTool(name, arguments) ==
    /\ last = Idle
    /\ last' = Called("execute_tool", NoKey, name, arguments, execute_tool(name, arguments))
    /\ UNCHANGED <<pc, max_content_length, catalog, in_flight, registries>>

\* list(self._resources.values())
get_resources == DictValues(_resources)
\* list(self._prompts.values())
get_prompts == DictValues(_prompts)
\* list(self._tool_handlers.keys())
list_tools == DictKeys(_tool_handlers)

\* a list operation that has returned
Listed(op, result) ==
    [op |-> op, key |-> NoKey, name |-> "", arguments |-> NoArgs,
     out |-> Return(result), calls |-> <<>>]

GetResources ==
    /\ last = Idle
    /\ last' = Listed("get_resources", get_resources)
    /\ UNCHANGED <<pc, max_content_length, catalog, in_flight, registries>>

GetPrompts ==
    /\ last = Idle
    /\ last' = Listed("get_prompts", get_prompts)
    /\ UNCHANGED <<pc, max_content_length, catalog, in_flight, registries>>

ListTools ==
    /\ last = Idle
    /\ last' = Listed("list_tools", list_tools)
    /\ UNCHANGED <<pc, max_content_length, catalog, in_flight, registries>>

\* ----------------------------------------------------------- protocol handlers
TRUNCATION_MARKER == <<"\n", "\n", "[", "C", "o", "n", "t", "e", "n", "t", " ", "t", "r", "u", "n", "c", "a", "t", "e", "d", " ", "d", "u", "e", " ", "t", "o", " ", "l", "e", "n", "g", "t", "h", " ", "l", "i", "m", "i", "t", "]">>

\* the limit applied to content of exactly the limit's length too
Truncate_at_limit(content, limit) ==
    IF Len(content) >= limit
    THEN PySlicePrefix(content, limit) \o TRUNCATION_MARKER
    ELSE content

\* the content length limit of handle_read_resource
Truncate(content, limit) ==
    IF Len(content) > limit
    THEN PySlicePrefix(content, limit) \o TRUNCATION_MARKER
    ELSE content

handle_read_resource(uri) ==
    LET r == get_content(uri)
    IN [out |-> IF r.out.ok THEN Return(Truncate(r.out.val, max_content_length))
                ELSE Raise(r.out.exc),
        calls |-> r.calls]

handle_get_prompt(name, arguments) == generate_prompt(name, arguments)

\* handle_call_tool that answers a failure with the text of the error
handle_call_tool_reporting_errors(name, arguments) ==
    LET r == execute_tool(name, arguments)
    IN [out |-> IF r.out.ok THEN Return(<<[type |-> "text", text |-> r.out.val]>>)
                ELSE Return(<<[type |-> "text", text |-> ExcStr(r.out.exc)]>>),
        calls |-> r.calls]

handle_call_tool(name, arguments) ==
    LET r == execute_tool(name, arguments)
    IN [out |-> IF r.out.ok THEN Return(<<[type |-> "text", text |-> r.out.val]>>)
                ELSE Raise(r.out.exc),
        calls |-> r.calls]

HandleReadResource(uri) ==
    /\ pc = "ready"
    /\ last = Idle
    /\ last' = Called("handle_read_resource", uri, "", NoArgs, handle_read_resource(uri))
    /\ UNCHANGED <<pc, max_content_length, catalog, in_flight, registries>>

HandleGetPrompt(name, arguments) ==
    /\ pc = "ready"
    /\ last = Idle
    /\ last' = Called("handle_get_prompt", NoKey, name, arguments,
                      handle_get_prompt(name, arguments))
    /\ UNCHANGED <<pc, max_content_length, catalog, in_flight, registries>>

HandleCallTool(name, arguments) ==
    /\ pc = "ready"
    /\ last = Idle
    /\ last' = Called("handle_call_tool", NoKey, name, arguments,
                      handle_call_tool(name, arguments))
    /\ UNCHANGED <<pc, max_content_length, catalog, in_flight, registries>>

handle_list_resources == get_resources
handle_list_prompts == get_prompts
\* handle_list_tools that lists what the tool registry holds: the definitions
\* of the registered names, and a bare entry for a name without a definition
handle_list_tools_from_registry ==
    [i \in 1..Len(list_tools) |->
        IF \E j \in 1..Len(GRAPHRAG_TOOLS) : GRAPHRAG_TOOLS[j].name = list_tools[i]
        THEN GRAPHRAG_TOOLS[CHOOSE j \in 1..Len(GRAPHRAG_TOOLS) :
                                GRAPHRAG_TOOLS[j].name = list_tools[i]]
        ELSE [name |-> list_tools[i], required |-> <<>>]]
handle_list_tools == GRAPHRAG_TOOLS

HandleListResources ==
    /\ pc = "ready"
    /\ last = Idle
    /\ last' = Listed("handle_list_resources", handle_list_resources)
    /\ UNCHANGED <<pc, max_content_length, catalog, in_flight, registries>>

HandleListPrompts ==
    /\ pc = "ready"
    /\ last = Idle
    /\ last' = Listed("handle_list_prompts", handle_list_prompts)
    /\ UNCHANGED <<pc, max_content_length, catalog, in_flight, registries>>

HandleListTools ==
    /\ pc = "ready"
    /\ last = Idle
    /\ last' = Listed("handle_list_tools", handle_list_tools)
    /\ UNCHANGED <<pc, max_content_length, catalog, in_flight, registries>>

\* --------------------------------------------- registration by other callers
\* Registration by code other than the server's own setup: on the registries of
\* a constructed server, which are public attributes, or on registries that
\* were created on their own, without a server (pc = "standalone").
ALPHABET == <<"a", "b", "c", "d">>
ContentTexts == {SubSeq(ALPHABET, 1, n) : n \in 0..MaxContentLen}
ClientResources ==
    {[uri |-> Url(CLIENT_URI), name |-> "Client Extra"],
     [uri |-> Url(CLIENT_URI), name |-> "Client Extra, revised"]}
ClientGens == {ConstGen(c) : c \in ContentTexts} \cup {RaisingGen}
\* what a client registers: the resource with each generator, and its revised
\* definition with the generator that raises
ClientRegistrations ==
    {c \in [resource : ClientResources, generator : ClientGens] :
        c.resource.name = "Client Extra" \/ c.generator = RaisingGen}
ClientPrompts == {[name |-> "analyze-graphrag-pattern", arguments |-> <<>>]}
ClientPromptGens == {EmptyPromptGen, RaisingPromptGen}
ClientHandlers == {RAISING_HANDLER, "_handle_query_resource"}

\* a registration call that has returned: what was registered under which key,
\* and whether the key was bound when the call was made
RegisteredAs(op, key, name, definition, generator, replaced) ==
    [op |-> op, key |-> key, name |-> name, arguments |-> NoArgs,
     out |-> Return(None), calls |-> <<>>,
     definition |-> definition, generator |-> generator, replaced |-> replaced]

RegisterResource(resource, content_generator) ==
    /\ pc \in {"ready", "standalone"}
    /\ last = Idle
    /\ LET reg == register_resource([resources |-> _resources,
                                     generators |-> _content_generators],
                                    resource, content_generator)
       IN /\ _resources' = reg.resources
          /\ _content_generators' = reg.generators
    /\ last' = RegisteredAs("register_resource", resource.uri, "", resource, content_generator,
                            DictHas(_content_generators, resource.uri))
    /\ UNCHANGED <<pc, max_content_length, catalog, in_flight, _prompts, _generators, _tool_handlers,
                   _resource_handler, _prompt_handler>>

RegisterPrompt(prompt, generator) ==
    /\ pc \in {"ready", "standalone"}
    /\ last = Idle
    /\ LET reg == register_prompt([prompts |-> _prompts, generators |-> _generators],
                                  prompt, generator)
       IN /\ _prompts' = reg.prompts
          /\ _generators' = reg.generators
    /\ last' = RegisteredAs("register_prompt", NoKey, prompt.name, prompt, generator,
                            DictHas(_generators, prompt.name))
    /\ UNCHANGED <<pc, max_content_length, catalog, in_flight, _resources, _content_generators, _tool_handlers,
                   _resource_handler, _prompt_handler>>

RegisterTool(name, handler) ==
    /\ pc \in {"ready", "standalone"}
    /\ last = Idle
    /\ _tool_handlers' = register_tool(_tool_handlers, name, handler)
    /\ last' = RegisteredAs("register_tool", NoKey, name, name, handler,
                            DictHas(_tool_handlers, name))
    /\ UNCHANGED <<pc, max_content_length, catalog, in_flight, _resources, _content_generators, _prompts,
                   _generators, _resource_handler, _prompt_handler>>

RegisterAllTools ==
    /\ pc \in {"ready", "standalone"}
    /\ last = Idle
    /\ _tool_handlers' = register_all_tools(_tool_handlers)
    /\ last' = Idle
    /\ UNCHANGED <<pc, max_content_length, catalog, in_flight, _resources, _content_generators, _prompts,
                   _generators, _resource_handler, _prompt_handler>>

SetResourceHandler(handler) ==
    /\ pc \in {"ready", "standalone"}
    /\ last = Idle
    /\ _resource_handler' = handler
    /\ last' = Idle
    /\ UNCHANGED <<pc, max_content_length, catalog, in_flight, _resources, _content_generators, _prompts,
                   _generators, _tool_handlers, _prompt_handler>>

SetPromptHandler(handler) ==
    /\ pc \in {"ready", "standalone"}
    /\ last = Idle
    /\ _prompt_handler' = handler
    /\ last' = Idle
    /\ UNCHANGED <<pc, max_content_length, catalog, in_flight, _resources, _content_generators, _prompts,
                   _generators, _tool_handlers, _resource_handler>>

\* ------------------------------------------------------------ specifications
\* the caller takes the result of the call; the next call can start
TakeResult ==
    /\ last # Idle
    /\ last' = Idle
    /\ UNCHANGED <<pc, max_content_length, catalog, in_flight, registries>>

Startup == SetupResources \/ SetupPrompts \/ SetupTools \/ SetupHandlers

RegistryReads(uris) ==
    \/ \E uri \in {Url(u) : u \in uris} \cup {Str(u) : u \in uris} : GetContent(uri)
    \/ \E name \in PromptNames \cup {UNKNOWN_PROMPT} :
          \E arguments \in PromptArgs(name) : GeneratePrompt(name, arguments)
    \/ \E name \in ToolNames \cup {UNKNOWN_TOOL, CLIENT_TOOL} :
          \E arguments \in ToolArgs(name, uris) : ExecuteTool(name, arguments)
    \/ GetContentAgain
    \/ GetResources
    \/ GetPrompts
    \/ ListTools

\* a request reaches handle_read_resource with the AnyUrl of its parameters
Dispatch(uris) ==
    \/ \E uri \in {Url(u) : u \in uris} : HandleReadResource(uri)
    \/ \E name \in PromptNames \cup {UNKNOWN_PROMPT} :
          \E arguments \in PromptArgs(name) : HandleGetPrompt(name, arguments)
    \/ \E name \in ToolNames \cup {UNKNOWN_TOOL, CLIENT_TOOL} :
          \E arguments \in ToolArgs(name, uris) : HandleCallTool(name, arguments)
    \/ HandleListResources
    \/ HandleListPrompts
    \/ HandleListTools

Registration ==
    \/ \E r \in ClientRegistrations : RegisterResource(r.resource, r.generator)
    \/ \E prompt \in ClientPrompts : \E g \in ClientPromptGens : RegisterPrompt(prompt, g)
    \/ \E h \in ClientHandlers : RegisterTool(CLIENT_TOOL, h)
    \/ RegisterAllTools
    \/ \E handler \in {"get_content", None} : SetResourceHandler(handler)
    \/ SetPromptHandler("generate_prompt")

\* the server as shipped: startup, then requests over every catalog key
Next == Startup \/ RegistryReads(UriStrings) \/ Dispatch(UriStrings) \/ TakeResult
Spec == Init /\ [][Next]_vars

\* the registries as a library: a server whose registries other code goes on
\* registering into, or three registries created without a server
InitRegistry ==
    /\ pc \in {"registries", "standalone"}
    /\ in_flight = NoneInFlight
    /\ catalog = SHIPPED_CATALOG
    /\ max_content_length \in
            IF pc = "standalone" THEN {DEFAULT_MAX_CONTENT_LENGTH} ELSE 0..MaxLimit
    /\ _resources = <<>>
    /\ _content_generators = <<>>
    /\ _prompts = <<>>
    /\ _generators = <<>>
    /\ _tool_handlers = <<>>
    /\ _resource_handler = None
    /\ _prompt_handler = None
    /\ last = Idle

\* the keys read here: one catalog key of each kind of generator, a key that is
\* never registered and the key a client registers
RegistryUriStrings ==
    {"graphrag://overview", "graphrag://patterns/event-reification",
     "graphrag://embeddings/node-embeddings", "graphrag://retrieval/global-first",
     UNKNOWN_URI, CLIENT_URI}

NextRegistry ==
    \/ Startup
    \/ Registration
    \/ RegistryReads(RegistryUriStrings)
    \/ Dispatch(RegistryUriStrings)
    \/ TakeResult
SpecRegistry == InitRegistry /\ [][NextRegistry]_vars

\* ------------------------------------------------------- concurrent requests
\* The event loop runs the handler of a dispatched request until it returns,
\* raises, or suspends in the await of a generator; every registry lookup of
\* the request comes before that await.  While a request is suspended the
\* loop runs other requests.
ReadRequest(uri) ==
    [op |-> "handle_read_resource", key |-> uri, name |-> "", arguments |-> NoArgs]
PromptRequest(name, arguments) ==
    [op |-> "handle_get_prompt", key |-> NoKey, name |-> name, arguments |-> arguments]
ToolRequest(name, arguments) ==
    [op |-> "handle_call_tool", key |-> NoKey, name |-> name, arguments |-> arguments]

ConcurrentRequests ==
    {ReadRequest(Url("graphrag://overview")),
     ReadRequest(Url(UNKNOWN_URI)),
     PromptRequest("analyze-graphrag-pattern", [use_case |-> "USE_CASE"]),
     PromptRequest(UNKNOWN_PROMPT, NoArgs),
     ToolRequest("get_technology_stacks", NoArgs),
     ToolRequest("analyze_graphrag_pattern", [use_case |-> "X"])}

\* the handler of a request, run on the registries as they are
RunRequest(req) ==
    CASE req.op = "handle_read_resource" -> handle_read_resource(req.key)
      [] req.op = "handle_get_prompt" -> handle_get_prompt(req.name, req.arguments)
      [] req.op = "handle_call_tool" -> handle_call_tool(req.name, req.arguments)

\* the handler reached the await of a generator
Suspends(calls) ==
    \E i \in 1..Len(calls) : calls[i].what \in {"content_generator", "prompt_generator"}

\* the slot of a request whose handler ran with outcome r: suspended at the
\* await of a generator, or already returned
Dispatched(req, r) ==
    [stage |-> IF Suspends(r.calls) THEN "suspended" ELSE "returned",
     op |-> req.op, key |-> req.key, name |-> req.name,
     arguments |-> req.arguments, out |-> r.out]

\* a dispatch whose read of a resource replaces the generator of the key by
\* one that returns nothing, as a handler that consumed its generator would
BeginRequest_consuming(i, req) ==
    /\ pc = "ready"
    /\ in_flight[i].stage = "free"
    /\ in_flight' = [in_flight EXCEPT ![i] = Dispatched(req, RunRequest(req))]
    /\ _content_generators' =
          IF req.op = "handle_read_resource" /\ DictHas(_content_generators, req.key)
          THEN DictSet(_content_generators, req.key, ConstGen(<<>>))
          ELSE _content_generators
    /\ UNCHANGED <<pc, max_content_length, catalog, _resources, _prompts, _generators,
                   _tool_handlers, _resource_handler, _prompt_handler, last>>

\* the loop dispatches a request into a free slot and runs its handler up to
\* the await of the generator, or to its end when it never gets there
BeginRequest(i, req) ==
    /\ pc = "ready"
    /\ in_flight[i].stage = "free"
    /\ in_flight' = [in_flight EXCEPT ![i] = Dispatched(req, RunRequest(req))]
    /\ UNCHANGED <<pc, max_content_length, catalog, registries, last>>

\* the awaited generator completes and the handler runs to its end
ResumeRequest(i) ==
    /\ in_flight[i].stage = "suspended"
    /\ in_flight' = [in_flight EXCEPT ![i].stage = "returned"]
    /\ UNCHANGED <<pc, max_content_length, catalog, registries, last>>

\* the reply is sent and the slot is free again
ReplyRequest(i) ==
    /\ in_flight[i].stage = "returned"
    /\ in_flight' = [in_flight EXCEPT ![i] = NoRequest]
    /\ UNCHANGED <<pc, max_content_length, catalog, registries, last>>

NextConcurrent ==
    \/ Startup
    \/ \E i \in 1..MaxInFlight : \E req \in ConcurrentRequests : BeginRequest(i, req)
    \/ \E i \in 1..MaxInFlight : ResumeRequest(i)
    \/ \E i \in 1..MaxInFlight : ReplyRequest(i)
SpecConcurrent == Init /\ [][NextConcurrent]_vars

\* ------------------------------------------- a tool registry with its delegates
\* A ToolRegistry created on its own, with the delegates its client injects:
\* the methods of registries that hold the catalog, or a prompt delegate of
\* the client's own.
InitDelegates ==
    /\ pc = "standalone"
    /\ in_flight = NoneInFlight
    /\ catalog = SHIPPED_CATALOG
    /\ max_content_length = DEFAULT_MAX_CONTENT_LENGTH
    /\ LET r == setup_resources([resources |-> <<>>, generators |-> <<>>])
           p == setup_prompts([prompts |-> <<>>, generators |-> <<>>])
       IN /\ _resources = r.resources
          /\ _content_generators = r.generators
          /\ _prompts = p.prompts
          /\ _generators = p.generators
    /\ _tool_handlers = <<>>
    /\ _resource_handler = None
    /\ _prompt_handler = None
    /\ last = Idle

NextDelegates ==
    \/ RegisterAllTools
    \/ SetResourceHandler("get_content")
    \/ \E handler \in {"generate_prompt", EMPTY_PROMPT_HANDLER, None} : SetPromptHandler(handler)
    \/ \E name \in ToolNames : \E arguments \in ToolArgs(name, {"graphrag://overview"}) :
          ExecuteTool(name, arguments)
    \/ TakeResult
SpecDelegates == InitDelegates /\ [][NextDelegates]_vars

\* --------------------------------------------- startup over an edited catalog
\* GRAPHRAG_RESOURCES and GRAPHRAG_PROMPTS are module-level lists: the server
\* is constructed over whatever they hold, which may be the shipped entries
\* and a definition that no branch of the setup loops binds.
UNBOUND_URI == "graphrag://glossary"
UNBOUND_RESOURCE == [uri |-> Url(UNBOUND_URI), name |-> "Glossary"]
UNBOUND_PROMPT ==
    [name |-> "summarize-graph", arguments |-> <<[name |-> "graph", required |-> TRUE]>>]

Catalogs ==
    [resources : {GRAPHRAG_RESOURCES, Append(GRAPHRAG_RESOURCES, UNBOUND_RESOURCE)},
     prompts : {GRAPHRAG_PROMPTS, Append(GRAPHRAG_PROMPTS, UNBOUND_PROMPT)}]

InitStartup ==
    /\ pc = "registries"
    /\ in_flight = NoneInFlight
    /\ catalog \in Catalogs
    /\ last = Idle
    /\ max_content_length \in LimitChoices
    /\ _resources = <<>>
    /\ _content_generators = <<>>
    /\ _prompts = <<>>
    /\ _generators = <<>>
    /\ _tool_handlers = <<>>
    /\ _resource_handler = None
    /\ _prompt_handler = None

NextStartup ==
    \/ Startup
    \/ \E uri \in {Url("graphrag://overview"), Url(UNBOUND_URI)} : HandleReadResource(uri)
    \/ \E name \in {"compare-architectures", UNBOUND_PROMPT.name} :
          \E arguments \in PromptArgs("compare-architectures") : HandleGetPrompt(name, arguments)
    \/ HandleListResources
    \/ HandleListPrompts
    \/ TakeResult
SpecStartup == InitStartup /\ [][NextStartup]_vars

\* -------------------------------------------------------------- properties
Registered(d, k) == k \in KeySet(d)
RESOURCE_TOOLS ==
    {"query_graphrag_resource", "get_construction_patterns", "get_embedding_strategies",
     "get_retrieval_strategies", "get_architectural_tradeoffs", "get_technology_stacks"}
PROMPT_TOOLS ==
    {"analyze_graphrag_pattern", "compare_architectures", "design_knowledge_graph",
     "implement_retrieval_strategy"}
\* the one argument the inputSchema of a tool requires
RequiredArgument(tool) ==
    GRAPHRAG_TOOLS[CHOOSE i \in 1..Len(GRAPHRAG_TOOLS) : GRAPHRAG_TOOLS[i].name = tool].required[1]
DelegateCalls(calls) ==
    {i \in 1..Len(calls) : calls[i].what \in
        {"resource_handler", "prompt_handler", "content_generator", "prompt_generator"}}

\* C1: a lookup of an identifier that was never registered fails with the
\* registry's own not-found error, which carries exactly the requested
\* identifier, is not wrapped in another error, and no generator, handler or
\* delegate is invoked.
C1_UnregisteredLookupIsNotFound ==
    /\ (last.op = "get_content" /\ ~Registered(_resources, last.key)) =>
          /\ ~last.out.ok
          /\ last.out.exc.cls = "ResourceNotFoundError"
          /\ last.out.exc.id = last.key
          /\ last.calls = <<>>
    /\ (last.op = "generate_prompt" /\ ~Registered(_prompts, last.name)) =>
          /\ ~last.out.ok
          /\ last.out.exc.cls = "PromptNotFoundError"
          /\ last.out.exc.id = Str(last.name)
          /\ last.calls = <<>>
    /\ (last.op = "execute_tool" /\ ~Registered(_tool_handlers, last.name)) =>
          /\ ~last.out.ok
          /\ last.out.exc.cls = "ToolNotFoundError"
          /\ last.out.exc.id = Str(last.name)
          /\ last.calls = <<>>

C1_Witness ==
    /\ last.op = "execute_tool"
    /\ last.name = UNKNOWN_TOOL
    /\ Len(_tool_handlers) > 0
    /\ last.out.exc.cls = "ToolNotFoundError"
    /\ Len(_resources) > 0
    /\ Len(_prompts) > 0

\* C2: when the generator bound to a resource key raises, get_content fails
\* with ContentGenerationError carrying that key and the text of the cause,
\* and the generator was invoked exactly once.
C2_GeneratorFailureIsWrappedOnce ==
    (/\ last.op = "get_content"
     /\ Registered(_content_generators, last.key)
     /\ ~RunGen(DictGet(_content_generators, last.key)).ok) =>
        /\ ~last.out.ok
        /\ last.out.exc.cls = "ContentGenerationError"
        /\ last.out.exc.id = last.key
        /\ last.out.exc.details = <<"generator failed">>
        /\ last.calls = <<Invoked("content_generator", last.key, "", NoArgs)>>

C2_Witness ==
    /\ last.op = "get_content"
    /\ last.key = Url(CLIENT_URI)
    /\ Registered(_content_generators, last.key)
    /\ DictGet(_content_generators, last.key) = RaisingGen
    /\ last.out.exc.cls = "ContentGenerationError"

\* the exception the handler bound to a tool raises on these arguments
HandlerOutcome(name, arguments) == RunHandler(DictGet(_tool_handlers, name), arguments).out

\* C3: for a registered tool, any exception raised while its handler runs,
\* an exception of the resource or prompt delegate included, leaves
\* execute_tool as ToolExecutionError carrying the requested tool name and
\* the text of the cause.
C3_HandlerFailureIsExecutionFailed ==
    (/\ last.op = "execute_tool"
     /\ Registered(_tool_handlers, last.name)
     /\ ~HandlerOutcome(last.name, last.arguments).ok) =>
        /\ ~last.out.ok
        /\ last.out.exc.cls = "ToolExecutionError"
        /\ last.out.exc.id = Str(last.name)
        /\ last.out.exc.details = HandlerOutcome(last.name, last.arguments).exc.message

\* the delegate's not-found error for an unknown resource key, wrapped
C3_Witness ==
    /\ last.op = "execute_tool"
    /\ last.name = "query_graphrag_resource"
    /\ last.arguments = [resource_uri |-> UNKNOWN_URI]
    /\ last.out.exc.cls = "ToolExecutionError"
    /\ last.out.exc.details = <<"Resource not found: ", UNKNOWN_URI>>
    /\ Len(last.calls) = 2

\* C4: when the generator bound to a registered prompt name raises,
\* generate_prompt fails with a generation-failed error of the taxonomy that
\* carries the prompt name and the cause.
C4_PromptGeneratorFailureIsWrapped ==
    (/\ last.op = "generate_prompt"
     /\ Registered(_generators, last.name)
     /\ ~RunPromptGen(DictGet(_generators, last.name), last.arguments).ok) =>
        /\ ~last.out.ok
        /\ last.out.exc.cls = "ContentGenerationError"
        /\ last.out.exc.id = Str(last.name)
        /\ last.out.exc.details = <<"prompt generator failed">>

\* C5: with a limit L >= 0, readResource returns content of length at most L
\* unmodified, and for longer content returns its first L characters followed
\* by the truncation marker, L + len(marker) characters in all.
C5_TruncationIsExact ==
    (/\ last.op = "handle_read_resource"
     /\ Registered(_content_generators, last.key)
     /\ RunGen(DictGet(_content_generators, last.key)).ok
     /\ max_content_length >= 0) =>
        LET c == RunGen(DictGet(_content_generators, last.key)).val
            L == max_content_length
        IN /\ last.out.ok
           /\ Len(c) <= L => last.out.val = c
           /\ Len(c) > L =>
                /\ Len(last.out.val) = L + 41
                /\ \A i \in 1..L : last.out.val[i] = c[i]
                /\ \A i \in 1..41 : last.out.val[L + i] = TRUNCATION_MARKER[i]

\* content one character longer than the limit
C5_Witness ==
    /\ last.op = "handle_read_resource"
    /\ last.key = Url(CLIENT_URI)
    /\ max_content_length = 1
    /\ Registered(_content_generators, last.key)
    /\ DictGet(_content_generators, last.key) = ConstGen(<<"a", "b">>)
    /\ last.out.val = <<"a">> \o TRUNCATION_MARKER

\* the content bound, in the registry, to the catalog entry whose uri reads s
BoundContent(s) ==
    RunGen(DictGet(_content_generators,
                   _resources[CHOOSE i \in 1..Len(_resources) : PyStr(_resources[i].k) = s].k)).val

\* C6: on the constructed server, for every resource key k of the catalog,
\* execute_tool("query_graphrag_resource", {resource_uri: k}) returns exactly
\* the content the resource registry holds for k.
C6_QueryToolReturnsResourceContent ==
    (/\ pc = "ready"
     /\ last.op = "execute_tool"
     /\ last.name = "query_graphrag_resource"
     /\ "resource_uri" \in DOMAIN last.arguments
     /\ last.arguments["resource_uri"] \in CatalogUriSet) =>
        /\ last.out.ok
        /\ last.out.val = BoundContent(last.arguments["resource_uri"])

\* the prompt a prompt-execution tool delegates to, and the argument names of
\* the mapping it passes
TargetPrompt(tool) ==
    CASE tool = "analyze_graphrag_pattern" -> "analyze-graphrag-pattern"
      [] tool = "compare_architectures" -> "compare-architectures"
      [] tool = "design_knowledge_graph" -> "design-knowledge-graph"
      [] tool = "implement_retrieval_strategy" -> "implement-retrieval-strategy"
ToolFields(tool) ==
    CASE tool = "analyze_graphrag_pattern" -> {"use_case", "requirements", "data_types"}
      [] tool = "compare_architectures" -> {"use_case", "scale", "performance_requirements"}
      [] tool = "design_knowledge_graph" ->
            {"domain", "data_sources", "integration_requirements"}
      [] tool = "implement_retrieval_strategy" -> {"strategy", "technology_stack", "use_case"}
MappedArgs(tool, arguments) ==
    [f \in ToolFields(tool) |-> IF f \in DOMAIN arguments THEN arguments[f] ELSE ""]

\* C7: a registered prompt-execution tool called with its required argument
\* supplied (present and not empty) passes to the prompt delegate its target
\* prompt's name and the mapping of its own three fields, each absent field
\* as the empty string, and returns the text of the first message of that
\* generate_prompt call.
C7_PromptToolReturnsFirstMessage ==
    (/\ last.op = "execute_tool"
     /\ last.name \in PROMPT_TOOLS
     /\ Registered(_tool_handlers, last.name)
     /\ RequiredArgument(last.name) \in DOMAIN last.arguments
     /\ last.arguments[RequiredArgument(last.name)] # "") =>
        LET mapped == MappedArgs(last.name, last.arguments)
            g == generate_prompt(TargetPrompt(last.name), mapped).out
        IN /\ g.ok
           /\ Len(g.val.messages) >= 1
           /\ last.out.ok
           /\ last.out.val = g.val.messages[1].text
           /\ Len(last.calls) >= 2
           /\ last.calls[2] = Invoked("prompt_handler", NoKey, TargetPrompt(last.name), mapped)

C7_Witness ==
    /\ last.op = "execute_tool"
    /\ last.name = "compare_architectures"
    /\ last.arguments = [use_case |-> "X", scale |-> "Y"]
    /\ last.out.ok
    /\ Len(last.calls) = 3
    /\ last.calls[2].arguments =
          [use_case |-> "X", scale |-> "Y", performance_requirements |-> ""]

\* the delegate a tool of the fixed set calls into is injected
DelegateConfigured(tool) ==
    IF tool \in RESOURCE_TOOLS THEN _resource_handler # None ELSE _prompt_handler # None

\* C8: a registered prompt-execution tool, or query_graphrag_resource, called
\* without its required argument (its delegate being configured) fails with
\* an error that names the tool and the missing argument, and no delegate is
\* invoked.  The error is the ToolExecutionError of the handler, wrapped by
\* execute_tool.
C8_MissingArgumentFails ==
    (/\ last.op = "execute_tool"
     /\ last.name \in PROMPT_TOOLS \cup {"query_graphrag_resource"}
     /\ Registered(_tool_handlers, last.name)
     /\ DelegateConfigured(last.name)
     /\ RequiredArgument(last.name) \notin DOMAIN last.arguments) =>
        /\ ~last.out.ok
        /\ last.out.exc.cls = "ToolExecutionError"
        /\ last.out.exc.id = Str(last.name)
        /\ last.out.exc.details =
              <<"Failed to execute tool ", last.name, ": ",
                RequiredArgument(last.name), " is required">>
        /\ DelegateCalls(last.calls) = {}

C8_Witness ==
    /\ last.op = "execute_tool"
    /\ last.name = "design_knowledge_graph"
    /\ last.arguments = [data_sources |-> "Y"]
    /\ _prompt_handler # None
    /\ ~last.out.ok
    /\ last.out.exc.details =
          <<"Failed to execute tool ", "design_knowledge_graph", ": ", "domain", " is required">>

\* C9: executing a registered tool of the fixed set while the delegate it
\* needs has not been injected fails, whatever the arguments, with the
\* handler's "not configured" error, before any argument validation and
\* without invoking a delegate.
C9_UnconfiguredFailsFast ==
    (/\ last.op = "execute_tool"
     /\ last.name \in ToolNames
     /\ Registered(_tool_handlers, last.name)
     /\ ~DelegateConfigured(last.name)) =>
        /\ ~last.out.ok
        /\ last.out.exc.cls = "ToolExecutionError"
        /\ last.out.exc.id = Str(last.name)
        /\ last.out.exc.details =
              <<"Failed to execute tool ", last.name, ": ",
                IF last.name \in RESOURCE_TOOLS THEN "Resource handler not configured"
                ELSE "Prompt handler not configured">>
        /\ DelegateCalls(last.calls) = {}

\* the required argument is missing as well, and it is not what is reported
C9_Witness ==
    /\ last.op = "execute_tool"
    /\ last.name = "analyze_graphrag_pattern"
    /\ last.arguments = NoArgs
    /\ _prompt_handler = None
    /\ Registered(_tool_handlers, last.name)
    /\ last.out.exc.details =
          <<"Failed to execute tool ", "analyze_graphrag_pattern", ": ",
            "Prompt handler not configured">>

\* C10: on the constructed server, get_content called with any of the 25
\* catalog keys as a string returns a non-empty string and raises nothing.
C10_CatalogKeysReadable ==
    (/\ pc = "ready"
     /\ last.op = "get_content"
     /\ last.key.t = "str"
     /\ last.key.s \in CatalogUriSet) =>
        /\ last.out.ok
        /\ Len(last.out.val) > 0

\* the catalog definition of a prompt, and its declared arguments
PromptDefinition(name) ==
    GRAPHRAG_PROMPTS[CHOOSE i \in 1..Len(GRAPHRAG_PROMPTS) : GRAPHRAG_PROMPTS[i].name = name]
DeclaredArgs(name) ==
    {PromptDefinition(name).arguments[i].name : i \in 1..Len(PromptDefinition(name).arguments)}
RequiredArgs(name) ==
    {PromptDefinition(name).arguments[i].name :
        i \in {j \in 1..Len(PromptDefinition(name).arguments) :
                  PromptDefinition(name).arguments[j].required}}
\* the text holds the value as one of its interpolated parts
Contains(text, value) == \E i \in 1..Len(text) : text[i] = value
\* the generator of the catalog is still the one bound to the prompt name
CatalogGeneratorBound(name) ==
    /\ name \in PromptNames
    /\ Registered(_generators, name)
    /\ DictGet(_generators, name) = PromptFnGen(prompt_generators[name])

DocumentedDefault(name, n) ==
    IF n \in RequiredArgs(name) THEN ""
    ELSE IF n = "technology_stack" THEN "Open to suggestions"
    ELSE "Not specified"
\* the arguments with every declared argument that is absent set to its default
WithDefaults(name, arguments) ==
    [n \in DeclaredArgs(name) |->
        IF n \in DOMAIN arguments THEN arguments[n] ELSE DocumentedDefault(name, n)]

\* C12: generate_prompt(name, args) with a schema-required argument absent
\* does not fail: it returns a one-message result in which the missing
\* required argument is rendered as the empty string and every absent optional
\* argument as its documented default ("Not specified", "Open to suggestions").
C12_MissingPromptArgumentsDefault ==
    (/\ last.op = "generate_prompt"
     /\ CatalogGeneratorBound(last.name)
     /\ ~(RequiredArgs(last.name) \subseteq DOMAIN last.arguments)) =>
        /\ last.out.ok
        /\ Len(last.out.val.messages) = 1
        /\ \A n \in DeclaredArgs(last.name) \ DOMAIN last.arguments :
              Contains(last.out.val.messages[1].text, DocumentedDefault(last.name, n))
        /\ last.out.val =
              RunPromptGen(DictGet(_generators, last.name),
                           WithDefaults(last.name, last.arguments)).val

\* analyze-graphrag-pattern with no argument at all
C12_Witness ==
    /\ last.op = "generate_prompt"
    /\ last.name = "analyze-graphrag-pattern"
    /\ CatalogGeneratorBound(last.name)
    /\ last.arguments = NoArgs
    /\ last.out.ok
    /\ Contains(last.out.val.messages[1].text, "")
    /\ Contains(last.out.val.messages[1].text, "Not specified")

\* the positions at which the lists of the registries hold a key
ResourcePositions(uri) == {i \in 1..Len(get_resources) : get_resources[i].uri = uri}
PromptPositions(name) == {i \in 1..Len(get_prompts) : get_prompts[i].name = name}
ToolPositions(name) == {i \in 1..Len(list_tools) : list_tools[i] = name}

\* C13: registering a key that is already bound raises no error and replaces
\* the binding: the registry then holds the most recently registered generator
\* for the key, a read of the key invokes that generator and no other, and the
\* registry's list holds exactly one definition for the key, the most recently
\* registered one.
C13_LastWriteWins ==
    /\ (last.op = "register_resource" /\ last.replaced) =>
          /\ last.out.ok
          /\ DictGet(_content_generators, last.key) = last.generator
          /\ get_content(last.key).out = RunGen(last.generator)
            \/ /\ ~RunGen(last.generator).ok
               /\ get_content(last.key).out =
                     Raise(ContentGenerationError(last.key, ExcStr(RunGen(last.generator).exc)))
          /\ Len(get_content(last.key).calls) = 1
          /\ Cardinality(ResourcePositions(last.key)) = 1
          /\ \A i \in ResourcePositions(last.key) :
                get_resources[i] = last.definition
    /\ (last.op = "register_prompt" /\ last.replaced) =>
          /\ last.out.ok
          /\ DictGet(_generators, last.name) = last.generator
          /\ generate_prompt(last.name, NoArgs).out = RunPromptGen(last.generator, NoArgs)
          /\ Len(generate_prompt(last.name, NoArgs).calls) = 1
          /\ Cardinality(PromptPositions(last.name)) = 1
          /\ \A i \in PromptPositions(last.name) :
                get_prompts[i] = last.definition
    /\ (last.op = "register_tool" /\ last.replaced) =>
          /\ last.out.ok
          /\ DictGet(_tool_handlers, last.name) = last.generator
          /\ execute_tool(last.name, NoArgs).calls[1] =
                Invoked("tool_handler", NoKey, last.name, NoArgs)
          /\ Cardinality(ToolPositions(last.name)) = 1

\* a client resource that is bound is registered again, with the revised
\* definition and a generator that raises
C13_Witness ==
    /\ last.op = "register_resource"
    /\ last.replaced
    /\ last.generator = RaisingGen
    /\ last.definition.name = "Client Extra, revised"
    /\ ~get_content(last.key).out.ok
    /\ Len(get_resources) = 26

IsPrefix(a, b) == Len(a) <= Len(b) /\ SubSeq(b, 1, Len(a)) = a
ToolCatalogNames == [i \in 1..Len(GRAPHRAG_TOOLS) |-> GRAPHRAG_TOOLS[i].name]

\* C14: in all three registries the list operation returns the entries in the
\* order of their registration: no step reorders the keys that are listed and
\* a newly registered key is listed after them; and when startup ends the
\* lists equal the static catalogs in catalog order (get_resources and
\* GRAPHRAG_RESOURCES, get_prompts and GRAPHRAG_PROMPTS, list_tools and the
\* names of GRAPHRAG_TOOLS).
C14_ListsKeepRegistrationOrder ==
    [][/\ IsPrefix(DictKeys(_resources), DictKeys(_resources'))
       /\ IsPrefix(DictKeys(_prompts), DictKeys(_prompts'))
       /\ IsPrefix(DictKeys(_tool_handlers), DictKeys(_tool_handlers'))
       /\ (pc = "tools" /\ pc' = "ready") =>
             /\ get_resources' = GRAPHRAG_RESOURCES
             /\ get_prompts' = GRAPHRAG_PROMPTS
             /\ list_tools' = ToolCatalogNames]_vars

\* the resources of a constructed server are listed after a client registered
\* one more: the catalog in its order, then the client's
C14_Witness ==
    /\ pc = "ready"
    /\ last.op = "get_resources"
    /\ Len(last.out.val) = Len(GRAPHRAG_RESOURCES) + 1
    /\ SubSeq(last.out.val, 1, Len(GRAPHRAG_RESOURCES)) = GRAPHRAG_RESOURCES
    /\ last.out.val[Len(last.out.val)].uri = Url(CLIENT_URI)
    /\ list_tools = ToolCatalogNames

\* the keys of the three static definition catalogs
ResourceCatalogKeys == {GRAPHRAG_RESOURCES[i].uri : i \in 1..Len(GRAPHRAG_RESOURCES)}
PromptCatalogKeys == {GRAPHRAG_PROMPTS[i].name : i \in 1..Len(GRAPHRAG_PROMPTS)}
ToolCatalogKeys == {GRAPHRAG_TOOLS[i].name : i \in 1..Len(GRAPHRAG_TOOLS)}
\* every key of the dict occurs in it once
OneEntryPerKey(dict) == Cardinality(KeySet(dict)) = Len(dict)

\* C15: when server construction has finished, in each of the three
\* registries the set of keys that have a binding equals the set of keys of
\* the static definition catalog (25 resources, 4 prompts, 10 tools), each
\* key with exactly one binding.
C15_BindingsMatchCatalogs ==
    pc = "ready" =>
        /\ KeySet(_content_generators) = ResourceCatalogKeys
        /\ KeySet(_resources) = ResourceCatalogKeys
        /\ OneEntryPerKey(_content_generators) /\ Len(_content_generators) = 25
        /\ KeySet(_generators) = PromptCatalogKeys
        /\ KeySet(_prompts) = PromptCatalogKeys
        /\ OneEntryPerKey(_generators) /\ Len(_generators) = 4
        /\ KeySet(_tool_handlers) = ToolCatalogKeys
        /\ OneEntryPerKey(_tool_handlers) /\ Len(_tool_handlers) = 10

\* construction has finished and the last retrieval detail of the catalog is bound
C15_Witness ==
    /\ pc = "ready"
    /\ DictHas(_content_generators, Url("graphrag://retrieval/constraint-guided-filtering"))
    /\ DictHas(_generators, "compare-architectures")
    /\ DictHas(_tool_handlers, "implement_retrieval_strategy")

ReadOps ==
    {"get_content", "get_content_again", "generate_prompt", "execute_tool",
     "get_resources", "get_prompts", "list_tools"}

\* C17: get_content, generate_prompt, execute_tool and every list operation
\* leave the definition maps and binding maps of all three registries, and
\* the tool registry's injected delegates, unchanged, whether the operation
\* succeeds or fails.
C17_ReadsLeaveRegistriesUnchanged ==
    [][(last # last' /\ last'.op \in ReadOps) => UNCHANGED registries]_vars

\* a read that failed in its generator, on registries that hold the catalog
\* and a client's resource
C17_Witness ==
    /\ last.op = "get_content"
    /\ ~last.out.ok
    /\ last.out.exc.cls = "ContentGenerationError"
    /\ Len(_content_generators) = Len(GRAPHRAG_RESOURCES) + 1
    /\ _resource_handler # None

\* C18: listTools returns the static tool definition catalog and neither
\* reads nor modifies the tool registry's handler map or its injected
\* delegates: its result is the same whatever handlers are registered and
\* whether or not the delegates have been configured.
C18_ListToolsIsStatic ==
    [][(last # last' /\ last'.op = "handle_list_tools") =>
          /\ last'.out.ok
          /\ last'.out.val = GRAPHRAG_TOOLS
          /\ UNCHANGED registries]_vars

\* listTools on a server whose tool registry holds a tool that is not in the
\* catalog and whose resource delegate has been reset
C18_Witness ==
    /\ last.op = "handle_list_tools"
    /\ DictHas(_tool_handlers, CLIENT_TOOL)
    /\ _resource_handler = None
    /\ last.out.val = GRAPHRAG_TOOLS

\* C19: every exception a registry raises while the facade handles
\* readResource, getPrompt or callTool reaches the protocol layer as the same
\* exception (same kind, identifier and message): the facade never swallows
\* it, never turns it into a success result and never replaces it, for errors
\* of the taxonomy and for unrecognized exceptions alike.
C19_FacadePassesErrorsThrough ==
    /\ (last.op = "handle_read_resource" /\ ~get_content(last.key).out.ok) =>
          last.out = get_content(last.key).out
    /\ (last.op = "handle_get_prompt"
        /\ ~generate_prompt(last.name, last.arguments).out.ok) =>
          last.out = generate_prompt(last.name, last.arguments).out
    /\ (last.op = "handle_call_tool" /\ ~execute_tool(last.name, last.arguments).out.ok) =>
          last.out = execute_tool(last.name, last.arguments).out

\* getPrompt on a prompt whose generator raises an exception that is not of
\* the taxonomy
C19_Witness ==
    /\ last.op = "handle_get_prompt"
    /\ Registered(_generators, last.name)
    /\ DictGet(_generators, last.name) = RaisingPromptGen
    /\ ~last.out.ok
    /\ last.out.exc = RuntimeError("prompt generator failed")

\* the requests the protocol runtime dispatches to the installed handlers
DispatchOps ==
    {"handle_read_resource", "handle_get_prompt", "handle_call_tool",
     "handle_list_resources", "handle_list_prompts", "handle_list_tools"}
\* every catalog entry is registered and both delegates are injected
FullyPopulated ==
    /\ KeySet(_content_generators) = ResourceCatalogKeys
    /\ KeySet(_generators) = PromptCatalogKeys
    /\ KeySet(_tool_handlers) = ToolCatalogKeys
    /\ _resource_handler # None
    /\ _prompt_handler # None

\* C20: in every execution of the server, all resource, prompt and tool
\* registrations and both delegate injections are complete when the protocol
\* request handlers are installed, so every dispatch reaches fully populated
\* registries, and no registration happens once requests can be dispatched.
C20_RegistrationBeforeDispatch ==
    [][/\ (pc # "ready" /\ pc' = "ready") => FullyPopulated'
       /\ (last # last' /\ last'.op \in DispatchOps) => FullyPopulated
       /\ pc = "ready" => UNCHANGED registries]_vars

\* a tool call dispatched on the constructed server
C20_Witness ==
    /\ pc = "ready"
    /\ last.op = "handle_call_tool"
    /\ last.name = "get_technology_stacks"
    /\ FullyPopulated

\* the requests that are in flight together
InFlight == {i \in 1..MaxInFlight : in_flight[i].stage # "free"}

C22_NoMessagesGivesSentinel ==
    (/\ last.op = "execute_tool"
     /\ last.name \in PROMPT_TOOLS
     /\ Registered(_tool_handlers, last.name)
     /\ Len(last.calls) >= 2
     /\ last.calls[2].what = "prompt_handler"
     /\ CallPromptHandler(last.calls[2].name, last.calls[2].arguments).out.ok
     /\ Len(CallPromptHandler(last.calls[2].name,
                              last.calls[2].arguments).out.val.messages) = 0) =>
        /\ last.out.ok
        /\ last.out.val = <<"No response generated">>

\* implement_retrieval_strategy on a delegate that returns no message
C22_Witness ==
    /\ last.op = "execute_tool"
    /\ last.name = "implement_retrieval_strategy"
    /\ _prompt_handler = EMPTY_PROMPT_HANDLER
    /\ Len(last.calls) = 2
    /\ last.out.ok
    /\ last.out.val = <<"No response generated">>

\* C23: a definition in the static catalog for which no generator can be
\* bound makes server startup fail: construction does not complete with that
\* definition left unbound.
C23_UnboundDefinitionFailsStartup ==
    (\/ \E i \in 1..Len(catalog.resources) : GeneratorFor(catalog.resources[i]) = NoGen
     \/ \E i \in 1..Len(catalog.prompts) :
            catalog.prompts[i].name \notin DOMAIN prompt_generators) =>
        pc # "ready"

\* the detail function of the family of a key, and what it returns for a key
DetailFunction(k) ==
    CASE k \in PatternUris -> "get_construction_pattern_detail"
      [] k \in EmbeddingUris -> "get_embedding_strategy_detail"
      [] k \in RetrievalUris -> "get_retrieval_strategy_detail"
DetailUris == PatternUris \cup EmbeddingUris \cup RetrievalUris

\* C24: for every key k of the patterns/, embeddings/ and retrieval/ families
\* the generator that the startup loop bound to k calls the family's detail
\* function with exactly k, never with the key of a later iteration; reads of
\* two different detail keys pass two different keys.
C24_DetailGeneratorCallsWithOwnKey ==
    /\ \A k \in DetailUris :
          Registered(_content_generators, Url(k)) =>
             LET g == DictGet(_content_generators, Url(k))
             IN /\ g.kind = "detail"
                /\ g.fn = DetailFunction(k)
                /\ g.uri = k
    /\ \A k1, k2 \in DetailUris :
          (/\ k1 # k2
           /\ Registered(_content_generators, Url(k1))
           /\ Registered(_content_generators, Url(k2))) =>
             DictGet(_content_generators, Url(k1)).uri #
                DictGet(_content_generators, Url(k2)).uri
    /\ (last.op \in {"get_content", "handle_read_resource"}
        /\ PyStr(last.key) \in DetailUris /\ last.out.ok
        /\ max_content_length = DEFAULT_MAX_CONTENT_LENGTH) =>
          last.out.val = <<"#", PyStr(last.key)>>

\* a detail key that is not the last of the catalog has been read
C24_Witness ==
    /\ last.op = "get_content"
    /\ last.key = Url("graphrag://patterns/event-reification")
    /\ last.out.ok
    /\ last.out.val = <<"#", "graphrag://patterns/event-reification">>
    /\ DictGet(_content_generators, Url("graphrag://retrieval/global-first")).uri =
          "graphrag://retrieval/global-first"

\* C25: every prompt-execution tool passes to the prompt delegate a mapping
\* that contains, under the target prompt's own argument names, every
\* argument the prompt's definition marks required.
C25_PromptToolPassesRequiredArguments ==
    (/\ last.op = "execute_tool"
     /\ last.name \in PROMPT_TOOLS
     /\ Registered(_tool_handlers, last.name)
     /\ Len(last.calls) >= 2
     /\ last.calls[2].what = "prompt_handler") =>
        /\ last.calls[2].name = TargetPrompt(last.name)
        /\ RequiredArgs(TargetPrompt(last.name)) \subseteq DOMAIN last.calls[2].arguments

\* the uri literal in the body of each _handle_get_* method
FixedKey(tool) ==
    CASE tool = "get_construction_patterns" -> "graphrag://construction-patterns"
      [] tool = "get_embedding_strategies" -> "graphrag://embedding-strategies"
      [] tool = "get_retrieval_strategies" -> "graphrag://retrieval-strategies"
      [] tool = "get_architectural_tradeoffs" -> "graphrag://architectural-tradeoffs"
      [] tool = "get_technology_stacks" -> "graphrag://technology-stacks"
ZERO_ARGUMENT_TOOLS == RESOURCE_TOOLS \ {"query_graphrag_resource"}

\* C26: on the constructed server each of the five zero-argument tools
\* returns exactly what reading its one fixed resource key returns, whatever
\* argument mapping it is given.
C26_ZeroArgumentToolReadsFixedKey ==
    (/\ pc = "ready"
     /\ last.op = "execute_tool"
     /\ last.name \in ZERO_ARGUMENT_TOOLS) =>
        /\ last.out.ok
        /\ last.out.val = BoundContent(FixedKey(last.name))

\* C27: every failure of execute_tool(name, args) is ToolNotFoundError(name)
\* or a ToolExecutionError whose tool_name is the requested name; a
\* ToolExecutionError raised inside the handler is wrapped a second time, its
\* whole message becoming the details of the outer error.
C27_ExecuteToolFailsWithTwoKinds ==
    (last.op = "execute_tool" /\ ~last.out.ok) =>
        /\ last.out.exc.id = Str(last.name)
        /\ IF ~Registered(_tool_handlers, last.name)
           THEN last.out.exc = ToolNotFoundError(last.name)
           ELSE /\ last.out.exc.cls = "ToolExecutionError"
                /\ last.out.exc.code = "TOOL_EXECUTION_FAILED"
                /\ HandlerOutcome(last.name, last.arguments).exc.cls = "ToolExecutionError" =>
                      /\ last.out.exc.details =
                            HandlerOutcome(last.name, last.arguments).exc.message
                      /\ last.out.exc.message =
                            <<"Failed to execute tool ", last.name, ": ">> \o
                               HandlerOutcome(last.name, last.arguments).exc.message

\* a handler registered under another name raised ToolExecutionError with its
\* own tool name: the outer error carries the requested name
C27_Witness ==
    /\ last.op = "execute_tool"
    /\ last.name = CLIENT_TOOL
    /\ Registered(_tool_handlers, CLIENT_TOOL)
    /\ ~last.out.ok
    /\ last.out.exc.id = Str(CLIENT_TOOL)
    /\ last.out.exc.details =
          <<"Failed to execute tool ", "query_graphrag_resource", ": ",
            "Resource handler not configured">>

\* the resource key a resource tool reads for an argument mapping
ToolKey(tool, arguments) ==
    IF tool = "query_graphrag_resource" THEN arguments["resource_uri"] ELSE FixedKey(tool)

\* C28: the content length limit is applied by readResource only: for a
\* catalog resource whose content is longer than the configured maximum,
\* callTool through query_graphrag_resource or a get_* tool returns the whole
\* content while readResource of the same key returns the truncated content.
C28_TruncationOnlyInReadResource ==
    (/\ pc = "ready"
     /\ last.op = "handle_call_tool"
     /\ \/ last.name \in ZERO_ARGUMENT_TOOLS
        \/ /\ last.name = "query_graphrag_resource"
           /\ "resource_uri" \in DOMAIN last.arguments
           /\ last.arguments["resource_uri"] \in CatalogUriSet
     /\ Len(BoundContent(ToolKey(last.name, last.arguments))) > max_content_length) =>
        LET k == ToolKey(last.name, last.arguments)
        IN /\ last.out.ok
           /\ last.out.val = <<[type |-> "text", text |-> BoundContent(k)]>>
           /\ handle_read_resource(Url(k)).out.val =
                 PySlicePrefix(BoundContent(k), max_content_length) \o TRUNCATION_MARKER

\* the mapping without one of its keys
Without(arguments, key) == [k \in DOMAIN arguments \ {key} |-> arguments[k]]

ProbeKeys == {Url(u) : u \in RegistryUriStrings} \cup {Str(u) : u \in RegistryUriStrings}
ProbeNames == PromptNames \cup {UNKNOWN_PROMPT}

\* C30: after any sequence of register_resource calls the key set of the
\* definition map equals the key set of the generator map, so has_resource(k),
\* get_resource(k) not raising and get_content(k) not raising the not-found
\* error are equivalent for every k; likewise for the prompt registry.
C30_DefinitionAndGeneratorKeysAgree ==
    /\ KeySet(_resources) = KeySet(_content_generators)
    /\ KeySet(_prompts) = KeySet(_generators)
    /\ \A k \in ProbeKeys :
          /\ has_resource(k) <=> get_resource(k).ok
          /\ has_resource(k) <=>
                ~(~get_content(k).out.ok
                  /\ get_content(k).out.exc.cls = "ResourceNotFoundError")
    /\ \A n \in ProbeNames :
          /\ has_prompt(n) <=> get_prompt(n).ok
          /\ has_prompt(n) <=>
                ~(~generate_prompt(n, NoArgs).out.ok
                  /\ generate_prompt(n, NoArgs).out.exc.cls = "PromptNotFoundError")

\* a client has registered a resource whose generator raises: the key is
\* known to all three lookups and get_content fails with another error
C30_Witness ==
    /\ last.op = "register_resource"
    /\ last.key = Url(CLIENT_URI)
    /\ has_resource(Url(CLIENT_URI))
    /\ get_resource(Url(CLIENT_URI)).ok
    /\ ~get_content(Url(CLIENT_URI)).out.ok
    /\ get_content(Url(CLIENT_URI)).out.exc.cls = "ContentGenerationError"
    /\ ~has_resource(Str(CLIENT_URI))
    /\ Len(_resources) > 1

====
